---- MODULE Spec2Model ----
(***************************************************************************)
(* Model of the suffuse clipboard broker: the hub (peer registry, latest   *)
(* value per clipboard, origin-suppressed fan-out, peer-change             *)
(* notification) and its federation upstream adapter.                      *)
(***************************************************************************)
EXTENDS Integers, Sequences, FiniteSets, TLC

\* ------------------------------------------------------------------ state

VARIABLES
    peers,          \* Hub.peers: peer id -> peer object
    latest,         \* Hub.latest: clipboard -> items
    latestSource,   \* Hub.latestSource: clipboard -> source
    listener,       \* Hub.listener: "nil" or the listener's name
    th,             \* the goroutines calling into the hub: one frame each
    inbox,          \* per peer object, the Send calls it received, in order
    used,           \* peer objects that were passed to Register
    gone,           \* peer objects that were passed to Unregister
    nops,           \* number of hub calls started
    lastPub,        \* history: per canonical clipboard, the last Publish call
    fout,           \* the last value clipboardFiltersLocked returned
    fdone,          \* whether clipboardFiltersLocked was called
    fcalls,         \* history: the calls of clipboardFiltersLocked so far, each
                    \* with the peer map it ran on and the value it returned
    sendCh,         \* Upstream.sendCh
    streams,        \* Upstream.streams: clipboard -> the stream loop's state
    wantFilters,    \* Upstream.wantFilters: clipboard -> accepts
    wire,           \* per clipboard, the frames the remote broker has sent on
                    \* the Watch stream and the stream loop has not received
    rLatest,        \* the remote hub's latest: clipboard -> items
    rLatestSource,  \* the remote hub's latestSource
    cbFilters,      \* the argument of the last OnPeerChange call
    cnt,            \* counters of the calls made so far
    lastLocal,      \* history: the last Publish into the local hub
    run,            \* Upstream.Run: where the forward loop and its teardown are
    watchCh,        \* watchPeer.ch of the Watch subscriber
    qh,             \* history of the queues: publishes made, events the Watch
                    \* loop took from watchCh, events dropped per peer
    localCh,        \* localpeer.Peer.sendCh
    lp,             \* the local clipboard peer: lastItems, its writer goroutine,
                    \* the clipboard backend, and the history of what it did
    wh,             \* the Service.Watch handler of the Watch subscriber: where it
                    \* is, its request's metadata_only, the frames it has written
    loops,          \* the streamLoop goroutines that have not returned, and the
                    \* clock
    connectedAt,    \* Upstream.connectedAt: clipboard -> connect time
    streamsMu       \* Upstream.streamsMu: its holder and how far the holder is

vars == <<peers, latest, latestSource, listener, th, inbox, used, gone, nops, lastPub,
          fout, fdone, fcalls, sendCh, streams, wantFilters, wire, rLatest, rLatestSource,
          cbFilters, cnt, lastLocal, run, watchCh, qh, localCh, lp, wh, loops, connectedAt,
          streamsMu>>

\* The variables of the federation upstream and of the remote broker.
fedVars == <<sendCh, streams, wantFilters, wire, rLatest, rLatestSource, cbFilters, cnt,
             lastLocal, run>>

\* The variables of the peers' queues.
peerVars == <<watchCh, qh, localCh, lp, wh, loops, connectedAt, streamsMu>>

\* The variables of the stream loops.
loopVars == <<loops, connectedAt, streamsMu>>

\* The variables of the filter computation alone.
filterVars == <<fout, fdone, fcalls>>

\* ------------------------------------------------------------------ values

DefaultClipboard == "default"

upstreamOriginID == "federation/upstream"

Range(s) == {s[i] : i \in 1..Len(s)}

\* Go's zero value for a missing map key.
MapGet(m, k, zero) == IF k \in DOMAIN m THEN m[k] ELSE zero

MapPut(m, k, v) == [x \in DOMAIN m \cup {k} |-> IF x = k THEN v ELSE m[x]]

MapDelete(m, k) == [x \in DOMAIN m \ {k} |-> m[x]]

EmptyMap == [x \in {} |-> 0]

\* Byte-wise string order of the strings the model uses (sort.Strings).
StrRank(s) ==
    CASE s = "" -> 0
      [] s = "default" -> 1
      [] s = "image/png" -> 2
      [] s = "scratch" -> 3
      [] s = "text/html" -> 4
      [] s = "text/plain" -> 5

StrLess(a, b) == StrRank(a) < StrRank(b)

IsSortedStrings(s) == \A i \in 1..Len(s) - 1 : ~StrLess(s[i + 1], s[i])

\* All orders in which a Go map range can visit the elements of S.
RECURSIVE Perms(_)
Perms(S) ==
    IF S = {} THEN {<<>>} ELSE UNION {{<<x>> \o s : s \in Perms(S \ {x})} : x \in S}

\* Clipboard items.
TextHi == [Mime |-> "text/plain", Data |-> "hi"]
TextYo == [Mime |-> "text/plain", Data |-> "yo"]
HtmlDoc == [Mime |-> "text/html", Data |-> "<b>"]
PngImg == [Mime |-> "image/png", Data |-> "img"]

Event(source, clipboard, items) ==
    [Source |-> source, Clipboard |-> clipboard, Items |-> items]

\* --------------------------------------------- the terms of the properties

\* The canonical form of a namespace.
CanonNs(ns) == IF ns = "" THEN "default" ELSE ns

\* The items of a sequence that a peer with the accepted types takes: all of
\* them when it names no type, else those of a named type, in order.
RECURSIVE Accepted(_, _)
Accepted(items, accepts) ==
    IF accepts = <<>> \/ items = <<>>
    THEN items
    ELSE IF \E i \in 1..Len(accepts) : accepts[i] = Head(items).Mime
         THEN <<Head(items)>> \o Accepted(Tail(items), accepts)
         ELSE Accepted(Tail(items), accepts)

\* ------------------------------------------------------------ hub helpers

canonicalizeKeepsEmpty(s) == s

canonicalize(s) == IF s = "" THEN DefaultClipboard ELSE s

filterItems(items, accepted) ==
    IF Len(accepted) = 0
    THEN items
    ELSE SelectSeq(items, LAMBDA it : it.Mime \in Range(accepted))

\* ---------------------------------------------------------- peer objects

\* The peer objects of the model: every object is one value implementing
\* hub.Peer.  "pb2" shares its ID with "pb"; "up" is the federation upstream;
\* "lp" is the local clipboard peer; "w1", "w2" and "w3" are the watchPeers of
\* three Watch calls on this broker, the first two from one transport address.
AllObjs == {"pa", "pb", "pb2", "pc", "pd", "pe", "up", "lp"}

\* The transport address and the configured source of the federated
\* (downstream) broker, as the remote broker sees them.
DownAddr == "10.0.0.2:4242"

DownSource == "down"

\* The transport addresses of two gRPC clients of this broker.
ClientAddr == "10.0.0.7:5001"

OtherAddr == "10.0.0.8:5002"

\* The watchPeer objects the remote broker creates for the downstream's
\* Watch streams, one per clipboard.
WatchObj(cb) == IF cb = "default" THEN "wd" ELSE "ws"

\* id := addr + "/watch/" + cb, kept as its three parts.
watchID(addr, cb) == <<addr, "/watch/", cb>>

IDUpstreamAddr(p) ==
    CASE p = "pa" -> "a"
      [] p = "pb" -> "b"
      [] p = "pb2" -> "b"
      [] p = "pc" -> "c"
      [] p = "pd" -> "d"
      [] p = "pe" -> "e"
      [] p = "up" -> "upstream:4242"
      [] p = "lp" -> "local"
      [] p = "wd" -> watchID(DownAddr, "default")
      [] p = "ws" -> watchID(DownAddr, "scratch")
      [] p = "w1" -> watchID(ClientAddr, "default")
      [] p = "w2" -> watchID(ClientAddr, "default")
      [] p = "w3" -> watchID(OtherAddr, "default")

ID(p) ==
    CASE p = "pa" -> "a"
      [] p = "pb" -> "b"
      [] p = "pb2" -> "b"
      [] p = "pc" -> "c"
      [] p = "pd" -> "d"
      [] p = "pe" -> "e"
      [] p = "up" -> upstreamOriginID
      [] p = "lp" -> "local"
      [] p = "wd" -> watchID(DownAddr, "default")
      [] p = "ws" -> watchID(DownAddr, "scratch")
      [] p = "w1" -> watchID(ClientAddr, "default")
      [] p = "w2" -> watchID(ClientAddr, "default")
      [] p = "w3" -> watchID(OtherAddr, "default")

PeerInfo(clipboard, acceptedTypes) ==
    [Clipboard |-> clipboard, AcceptedTypes |-> acceptedTypes]

Info(p) ==
    CASE p = "pa" -> PeerInfo("", <<>>)
      [] p = "pb" -> PeerInfo("default", <<"text/plain">>)
      [] p = "pb2" -> PeerInfo("scratch", <<"image/png">>)
      [] p = "pc" -> PeerInfo("default", <<"text/plain", "image/png">>)
      [] p = "pd" -> PeerInfo("scratch", <<"text/html", "text/html">>)
      [] p = "pe" -> PeerInfo("scratch", <<>>)
      [] p = "up" -> PeerInfo("", <<>>)
      [] p = "lp" -> PeerInfo("default", <<>>)
      [] p = "wd" -> PeerInfo("default", streams["default"].accepts)
      [] p = "ws" -> PeerInfo("scratch", streams["scratch"].accepts)
      [] p = "w1" -> PeerInfo("default", <<>>)
      [] p = "w2" -> PeerInfo("default", <<"text/plain">>)
      [] p = "w3" -> PeerInfo("default", <<>>)

\* p.(BroadcastPeer): only the federation upstream has a Broadcast method.
IsBroadcast(p) == p = "up"

\* ------------------------------------------------------- filter snapshot

ClipboardFilter(clipboard, accepts) == [Clipboard |-> clipboard, Accepts |-> accepts]

filterStepNoAllCheck(m, p) ==
    IF IsBroadcast(p)
    THEN m
    ELSE LET info == Info(p)
             cb == canonicalize(info.Clipboard)
             e == MapGet(m, cb, [accepts |-> {}, all |-> FALSE])
         IN  IF Len(info.AcceptedTypes) = 0
             THEN MapPut(m, cb, [accepts |-> {}, all |-> TRUE])
             ELSE MapPut(m, cb, [accepts |-> e.accepts \cup Range(info.AcceptedTypes),
                                 all |-> FALSE])

filterStepCountsBroadcast(m, p) ==
    LET info == Info(p)
        cb == canonicalize(info.Clipboard)
        e == MapGet(m, cb, [accepts |-> {}, all |-> FALSE])
    IN  IF e.all
        THEN MapPut(m, cb, e)
        ELSE IF Len(info.AcceptedTypes) = 0
             THEN MapPut(m, cb, [accepts |-> {}, all |-> TRUE])
             ELSE MapPut(m, cb, [accepts |-> e.accepts \cup Range(info.AcceptedTypes),
                                 all |-> FALSE])

filterStepAllNotAbsorbing(m, p) ==
    IF IsBroadcast(p)
    THEN m
    ELSE LET info == Info(p)
             cb == canonicalize(info.Clipboard)
             e == MapGet(m, cb, [accepts |-> {}, all |-> FALSE])
         IN  MapPut(m, cb, [accepts |-> e.accepts \cup Range(info.AcceptedTypes),
                            all |-> FALSE])

\* One iteration of the loop over h.peers: m is clipboard -> entry.
filterStep(m, p) ==
    IF IsBroadcast(p)
    THEN m
    ELSE LET info == Info(p)
             cb == canonicalize(info.Clipboard)
             e == MapGet(m, cb, [accepts |-> {}, all |-> FALSE])
         IN  IF e.all
             THEN MapPut(m, cb, e)
             ELSE IF Len(info.AcceptedTypes) = 0
                  THEN MapPut(m, cb, [accepts |-> {}, all |-> TRUE])
                  ELSE MapPut(m, cb, [accepts |-> e.accepts \cup Range(info.AcceptedTypes),
                                      all |-> FALSE])

\* The loop over h.peers, visiting the peers in the order of the sequence ps.
RECURSIVE filterEntries(_)
filterEntries(ps) ==
    IF Len(ps) = 0
    THEN EmptyMap
    ELSE filterStep(filterEntries(SubSeq(ps, 1, Len(ps) - 1)), ps[Len(ps)])

\* The accept lists the inner range over e.accepts can build.
entryAccepts(e) == IF e.all THEN {<<>>} ELSE Perms(e.accepts)

\* One accept list per entry of m, each in an order the range can produce.
acceptChoices(m) ==
    {a \in [DOMAIN m -> UNION {entryAccepts(m[cb]) : cb \in DOMAIN m}] :
        \A cb \in DOMAIN m : a[cb] \in entryAccepts(m[cb])}

\* The output loop over m: every order of the clipboards, every order of the
\* types of each entry.
filterOutputs(m) ==
    {[i \in 1..Len(order) |-> ClipboardFilter(order[i], acc[order[i]])] :
        order \in Perms(DOMAIN m), acc \in acceptChoices(m)}

\* Every value clipboardFiltersLocked can return for the peer map ps
\* (id -> peer object): Go leaves the iteration order of all three maps open.
clipboardFiltersLocked(ps) ==
    UNION {filterOutputs(filterEntries(order)) : order \in Perms({ps[id] : id \in DOMAIN ps})}

\* ----------------------------------------------------------------- bounds

MaxOps == 3

\* The goroutines that call into the hub concurrently.
Threads == {1, 2}

HubObjs == {"pa", "pb", "up"}

PubItems == {<<PngImg>>, <<PngImg, TextYo>>}

PubClipboards == {"", "scratch"}

\* The publishers: origin id and the source label each one publishes with.
Publishers == {<<"a", "alice">>, <<upstreamOriginID, "srv">>}

CanonClipboards == {"default", "scratch"}

\* ------------------------------------------------------------ hub: frames

NoCalls == [local |-> 0, remote |-> 0, err |-> 0, reg |-> 0, copies |-> 0]

NoLocal ==
    [has |-> FALSE, origin |-> "", name |-> "", items |-> <<>>, source |-> "",
     peersAt |-> EmptyMap, sentTo |-> {}, enq |-> FALSE]

NoPub == [has |-> FALSE, items |-> <<>>, source |-> ""]

Idle ==
    [pc |-> "idle", op |-> "none", p |-> "none", cb |-> "", name |-> "",
     items |-> <<>>, source |-> "", origin |-> "",
     latest |-> <<>>, src |-> "", filters |-> <<>>, targets |-> {},
     \* history fields, read by the properties only
     peersAt |-> EmptyMap, sentTo |-> {}, ncb |-> 0, cbArg |-> <<>>,
     hadListener |-> FALSE, seen |-> NoPub, nsent |-> 0, prev |-> EmptyMap]

\* A call starts on the lowest idle goroutine: the goroutines are
\* interchangeable, so this loses no interleaving.
CanStart(t) == th[t].pc = "idle" /\ \A u \in Threads : u < t => th[u].pc # "idle"

notifyListenerSkipped(f, filters) == f

\* notifyListener: the callback runs iff a listener is set at that moment.
notifyListener(f, filters) ==
    IF listener # "nil"
    THEN [f EXCEPT !.ncb = @ + 1, !.cbArg = filters, !.hadListener = TRUE]
    ELSE f

\* p.Send(ev) on a peer object: the call is recorded in the object's inbox.
Send(box, p, ev, kind) == [box EXCEPT ![p] = Append(@, [ev |-> ev, kind |-> kind])]

\* --------------------------------------------------------- hub: Register

registerPutKeepsFirst(ps, p) == IF ID(p) \in DOMAIN ps THEN ps ELSE MapPut(ps, ID(p), p)

\* h.peers[p.ID()] = p
registerPut(ps, p) == MapPut(ps, ID(p), p)

\* Register, the critical section (h.mu held).
hubRegisterLock(t, p) ==
    /\ CanStart(t)
    /\ nops < MaxOps
    /\ LET info == Info(p)
           cb == canonicalize(info.Clipboard)
           ps == registerPut(peers, p)
       IN  /\ peers' = ps
           /\ \E filters \in clipboardFiltersLocked(ps) :
                th' = [th EXCEPT ![t] =
                          [Idle EXCEPT !.pc = "reg_notify", !.op = "Register", !.p = p,
                                       !.cb = cb,
                                       !.latest = MapGet(latest, cb, <<>>),
                                       !.src = MapGet(latestSource, cb, ""),
                                       !.filters = filters,
                                       !.peersAt = ps,
                                       !.prev = peers,
                                       !.seen = lastPub[CanonNs(info.Clipboard)]]]
    /\ used' = used \cup {p}
    /\ nops' = nops + 1
    /\ UNCHANGED <<filterVars, peerVars, fedVars>>
    /\ UNCHANGED <<latest, latestSource, listener, inbox, gone, lastPub>>

\* Register of a peer object that was not registered before.
RegisterLock(t, p) == p \in HubObjs \ used /\ hubRegisterLock(t, p)

\* Register, h.notifyListener(filters), after the lock was released.
RegisterNotify(t) ==
    /\ th[t].pc = "reg_notify"
    /\ th' = [th EXCEPT ![t] = [notifyListener(@, @.filters) EXCEPT !.pc = "reg_send"]]
    /\ UNCHANGED <<filterVars, peerVars, fedVars>>
    /\ UNCHANGED <<peers, latest, latestSource, listener, inbox, used, gone, nops, lastPub>>

registerReplayUnfiltered(f) ==
    IF Len(f.latest) > 0 THEN <<Event(f.src, f.cb, f.latest)>> ELSE <<>>

\* The replay Register sends: the event, or none.
registerReplay(f) ==
    IF Len(f.latest) > 0 /\ Len(filterItems(f.latest, Info(f.p).AcceptedTypes)) > 0
    THEN <<Event(f.src, f.cb, filterItems(f.latest, Info(f.p).AcceptedTypes))>>
    ELSE <<>>

\* Register, the replay of the latest items to the new peer.
RegisterSend(t) ==
    /\ th[t].pc = "reg_send"
    /\ LET f == th[t]
           replay == registerReplay(f)
       IN  IF Len(replay) > 0
           THEN /\ inbox' = Send(inbox, f.p, replay[1], "replay")
                /\ th' = [th EXCEPT ![t].pc = "done", ![t].nsent = @ + 1]
           ELSE /\ inbox' = inbox
                /\ th' = [th EXCEPT ![t].pc = "done"]
    /\ UNCHANGED <<filterVars, peerVars, fedVars>>
    /\ UNCHANGED <<peers, latest, latestSource, listener, used, gone, nops, lastPub>>

\* -------------------------------------------------------- hub: Unregister

\* Unregister, the critical section.
hubUnregisterLock(t, p) ==
    /\ CanStart(t)
    /\ nops < MaxOps
    /\ LET ps == MapDelete(peers, ID(p))
       IN  /\ peers' = ps
           /\ \E filters \in clipboardFiltersLocked(ps) :
                th' = [th EXCEPT ![t] =
                          [Idle EXCEPT !.pc = "unreg_notify", !.op = "Unregister", !.p = p,
                                       !.filters = filters, !.peersAt = ps,
                                       !.prev = peers]]
    /\ gone' = gone \cup {p}
    /\ nops' = nops + 1
    /\ UNCHANGED <<filterVars, peerVars, fedVars>>
    /\ UNCHANGED <<latest, latestSource, listener, inbox, used, lastPub>>

\* Unregister of a peer object that is registered.
UnregisterLock(t, p) == p \in used \ gone /\ hubUnregisterLock(t, p)

\* Unregister, h.notifyListener(filters).
UnregisterNotify(t) ==
    /\ th[t].pc = "unreg_notify"
    /\ th' = [th EXCEPT ![t] = [notifyListener(@, @.filters) EXCEPT !.pc = "done"]]
    /\ UNCHANGED <<filterVars, peerVars, fedVars>>
    /\ UNCHANGED <<peers, latest, latestSource, listener, inbox, used, gone, nops, lastPub>>

\* ----------------------------------------------------------- hub: Publish

publishTargetsNoOriginCheck(ps, cb, originID) ==
    {ps[id] : id \in {i \in DOMAIN ps :
        IsBroadcast(ps[i]) \/ canonicalize(Info(ps[i]).Clipboard) = cb}}

\* The targets Publish collects under the lock.
publishTargets(ps, cb, originID) ==
    {ps[id] : id \in {i \in DOMAIN ps :
        /\ i # originID
        /\ IsBroadcast(ps[i]) \/ canonicalize(Info(ps[i]).Clipboard) = cb}}

publishStoreItemsOnly(m, cb, items, source) ==
    [latest |-> MapPut(m.latest, cb, items), latestSource |-> m.latestSource]

\* h.latest[cb] = items; h.latestSource[cb] = source, both with h.mu held:
\* m is [latest, latestSource].
publishStore(m, cb, items, source) ==
    [latest |-> MapPut(m.latest, cb, items),
     latestSource |-> MapPut(m.latestSource, cb, source)]

\* Publish, the critical section.
PublishLock(t, items, clipboardName, originID, source) ==
    /\ CanStart(t)
    /\ nops < MaxOps
    /\ LET cb == canonicalize(clipboardName)
           targets == publishTargets(peers, cb, originID)
           stored == publishStore([latest |-> latest, latestSource |-> latestSource],
                                  cb, items, source)
       IN  /\ latest' = stored.latest
           /\ latestSource' = stored.latestSource
           /\ th' = [th EXCEPT ![t] =
                        [Idle EXCEPT !.pc = IF targets = {} THEN "done" ELSE "pub_send",
                                     !.op = "Publish", !.name = clipboardName,
                                     !.cb = cb, !.items = items,
                                     !.source = source, !.origin = originID,
                                     !.targets = targets, !.peersAt = peers]]
    /\ nops' = nops + 1
    /\ lastPub' = [lastPub EXCEPT ![CanonNs(clipboardName)] =
                      [has |-> TRUE, items |-> items, source |-> source]]
    /\ UNCHANGED <<filterVars, peerVars, fedVars>>
    /\ UNCHANGED <<peers, listener, inbox, used, gone>>

\* Publish, one iteration of the delivery loop, after the lock was released.
PublishSend(t) ==
    /\ th[t].pc = "pub_send"
    /\ \E p \in th[t].targets :
         LET f == th[t]
             filtered == filterItems(f.items, Info(p).AcceptedTypes)
             rest == f.targets \ {p}
             pc2 == IF rest = {} THEN "done" ELSE "pub_send"
         IN  IF Len(filtered) = 0
             THEN /\ inbox' = inbox
                  /\ th' = [th EXCEPT ![t].targets = rest, ![t].pc = pc2]
             ELSE /\ inbox' = Send(inbox, p, Event(f.source, f.cb, filtered), "publish")
                  /\ th' = [th EXCEPT ![t].targets = rest, ![t].pc = pc2,
                                      ![t].sentTo = @ \cup {p}, ![t].nsent = @ + 1]
    /\ UNCHANGED <<filterVars, peerVars, fedVars>>
    /\ UNCHANGED <<peers, latest, latestSource, listener, used, gone, nops, lastPub>>

\* ------------------------------------------------------------ hub: Latest

LatestDropsSource(clipboardName, accept) ==
    LET cb == canonicalize(clipboardName)
        items == filterItems(MapGet(latest, cb, <<>>), accept)
    IN  [items |-> items,
         source |-> IF Len(items) = 0 THEN "" ELSE MapGet(latestSource, cb, "")]

\* Latest(clipboardName, accept), wholly under the read lock: a read of the
\* state between two critical sections.
Latest(clipboardName, accept) ==
    LET cb == canonicalize(clipboardName)
    IN  [items |-> filterItems(MapGet(latest, cb, <<>>), accept),
         source |-> MapGet(latestSource, cb, "")]

\* The call returns to its caller.
Return(t) ==
    /\ th[t].pc = "done"
    /\ th' = [th EXCEPT ![t] = Idle]
    /\ UNCHANGED <<filterVars, peerVars, fedVars>>
    /\ UNCHANGED <<peers, latest, latestSource, listener, inbox, used, gone, nops, lastPub>>

\* ------------------------------------------------------ hub specification

\* The hub before the first Publish, after federation.New has set the
\* listener and registered the upstream, with any of the other peer objects
\* already registered and their Register calls returned.
HubInit ==
    /\ \E reg \in SUBSET HubObjs :
         /\ "up" \in reg
         /\ peers = [id \in {ID(p) : p \in reg} |-> CHOOSE p \in reg : ID(p) = id]
         /\ used = reg
    /\ latest = EmptyMap
    /\ latestSource = EmptyMap
    /\ listener = "upstream"
    /\ th = [t \in Threads |-> Idle]
    /\ inbox = [p \in AllObjs |-> <<>>]
    /\ gone = {}
    /\ nops = 0
    /\ lastPub = [cb \in CanonClipboards |-> NoPub]

FilterIdle == fout = <<>> /\ fdone = FALSE /\ fcalls = <<>>

NoQueueHistory ==
    [base |-> 0, n |-> 0, got |-> <<>>, dropped |-> [p \in {"pc", "up", "lp"} |-> {}],
     copied |-> <<>>]

\* localpeer.New: nothing written or read yet, the writer goroutine at its
\* receive, the clipboard empty and no change signalled.
NewLocalPeer ==
    [lastItems |-> <<>>, w |-> [pc |-> "recv"], text |-> <<>>, img |-> <<>>,
     polled |-> <<<<>>, <<>>>>, pending |-> FALSE, by |-> "none", taken |-> 0,
     copies |-> 0, written |-> <<>>, published |-> <<>>, lastSeen |-> 0]

\* No Watch call made yet.
NoWatch ==
    [st |-> "idle", metadataOnly |-> FALSE, frames |-> <<>>, taken |-> <<>>, pubs |-> 0,
     why |-> "none", cbArg |-> <<>>, pubsAfter |-> 0, sentAfter |-> 0, lastCopy |-> <<>>]

\* No stream loop started; now is the clock, started the number of loops
\* started so far, failsLeft the number of attempts that are still to fail.
NoLoops == [started |-> 0, now |-> 0, live |-> EmptyMap, failsLeft |-> 0]

\* Upstream.streamsMu unlocked.  want, await and visited are the locals of
\* the call that holds it.
Unlocked == [holder |-> "none", want |-> EmptyMap, await |-> "none", visited |-> {}]

\* No peer's queue in use, no stream loop running.
PeerIdle ==
    /\ watchCh = <<>>
    /\ qh = NoQueueHistory
    /\ localCh = <<>>
    /\ lp = NewLocalPeer
    /\ wh = NoWatch
    /\ loops = NoLoops
    /\ connectedAt = EmptyMap
    /\ streamsMu = Unlocked

\* Upstream.Run in its forward loop, context not cancelled.  cancelled is
\* history: the namespaces whose stream loops the teardown cancelled.
Running == [st |-> "running", cancelled |-> {}]

\* The upstream's queue and streams and the remote broker, at rest.
FedIdle ==
    /\ sendCh = <<>>
    /\ streams = EmptyMap
    /\ wantFilters = EmptyMap
    /\ wire = [cb \in CanonClipboards |-> <<>>]
    /\ rLatest = EmptyMap
    /\ rLatestSource = EmptyMap
    /\ cbFilters = <<>>
    /\ cnt = NoCalls
    /\ lastLocal = NoLocal
    /\ run = Running

Init == HubInit /\ FilterIdle /\ FedIdle /\ PeerIdle

Next ==
    \/ \E t \in Threads, p \in HubObjs : RegisterLock(t, p)
    \/ \E t \in Threads : RegisterNotify(t)
    \/ \E t \in Threads : RegisterSend(t)
    \/ \E t \in Threads, p \in HubObjs : UnregisterLock(t, p)
    \/ \E t \in Threads : UnregisterNotify(t)
    \/ \E t \in Threads, items \in PubItems, cn \in PubClipboards, by \in Publishers :
         PublishLock(t, items, cn, by[1], by[2])
    \/ \E t \in Threads : PublishSend(t)
    \/ \E t \in Threads : Return(t)

Spec == Init /\ [][Next]_vars

\* Every peer map over the objects of S: one object per id.
PeerMaps(S) ==
    {m \in [{ID(p) : p \in S} -> S] : \A id \in DOMAIN m : ID(m[id]) = id}

\* --------------------------------- hub: the upstream registers later

\* The hub in federation.New between h.SetPeerChangeListener(u) and
\* h.Register(u): the listener set, the upstream not yet registered, any of
\* the local peers registered.
JoinInit ==
    /\ \E reg \in SUBSET (HubObjs \ {"up"}) :
         /\ peers \in PeerMaps(reg)
         /\ used = reg
    /\ latest = EmptyMap
    /\ latestSource = EmptyMap
    /\ listener = "upstream"
    /\ th = [t \in Threads |-> Idle]
    /\ inbox = [p \in AllObjs |-> <<>>]
    /\ gone = {}
    /\ nops = 0
    /\ lastPub = [cb \in CanonClipboards |-> NoPub]
    /\ FilterIdle
    /\ FedIdle
    /\ PeerIdle

\* The hub's calls, h.Register(u) among them.
JoinSpec == JoinInit /\ [][Next]_vars

\* ------------------------------- hub: re-registration and absent ids

\* The peer objects: "pb" and "pb2" share the id "b".
ReplaceObjs == {"pb", "pb2", "pc"}

RePubItems == <<PngImg, TextYo>>

\* Hub.Peers: the Info of every entry of h.peers, in map order.
hubPeers(ps) ==
    {[i \in 1..Len(ids) |-> Info(ps[ids[i]])] : ids \in Perms(DOMAIN ps)}

\* Register of any peer object, also one whose id is registered already.
RegisterAgain(t, p) == p \in ReplaceObjs /\ hubRegisterLock(t, p)

\* Unregister of any peer object, also one whose id is not registered.
UnregisterAny(t, p) == p \in ReplaceObjs /\ hubUnregisterLock(t, p)

\* A hub with a listener set and one or two peers registered.
ReplaceInit ==
    /\ \E reg \in {{"pc"}, {"pb", "pc"}} :
         /\ peers \in PeerMaps(reg)
         /\ used = reg
    /\ latest = EmptyMap
    /\ latestSource = EmptyMap
    /\ listener = "upstream"
    /\ th = [t \in Threads |-> Idle]
    /\ inbox = [p \in AllObjs |-> <<>>]
    /\ gone = {}
    /\ nops = 0
    /\ lastPub = [cb \in CanonClipboards |-> NoPub]
    /\ FilterIdle
    /\ FedIdle
    /\ PeerIdle

ReplaceNext ==
    \/ \E t \in Threads, p \in ReplaceObjs : RegisterAgain(t, p)
    \/ \E t \in Threads : RegisterNotify(t)
    \/ \E t \in Threads : RegisterSend(t)
    \/ \E t \in Threads, p \in ReplaceObjs : UnregisterAny(t, p)
    \/ \E t \in Threads : UnregisterNotify(t)
    \/ \E t \in Threads, cn \in PubClipboards :
         PublishLock(t, RePubItems, cn, "a", "alice")
    \/ \E t \in Threads : PublishSend(t)
    \/ \E t \in Threads : Return(t)

ReplaceSpec == ReplaceInit /\ [][ReplaceNext]_vars

\* ------------------------------------------- hub: namespaces as given

\* The namespaces the callers pass: empty, the default by name, another.
GivenClipboards == {"", "default", "scratch"}

\* The hub's calls with every spelling of the namespace.
CanonNext ==
    \/ \E t \in Threads, p \in HubObjs : RegisterLock(t, p)
    \/ \E t \in Threads : RegisterNotify(t)
    \/ \E t \in Threads : RegisterSend(t)
    \/ \E t \in Threads, p \in HubObjs : UnregisterLock(t, p)
    \/ \E t \in Threads : UnregisterNotify(t)
    \/ \E t \in Threads, cn \in GivenClipboards :
         PublishLock(t, RePubItems, cn, "c", "carol")
    \/ \E t \in Threads : PublishSend(t)
    \/ \E t \in Threads : Return(t)

CanonSpec == Init /\ [][CanonNext]_vars

\* -------------------------------------------------- federation upstream

\* Capacity of Upstream.sendCh.
sendChCap == 64

\* The number of steps of the environment in a run: publishes by the local
\* and the remote client, stream failures, registrations and leaves.
MaxFedOps == 3

FedOps == cnt.local + cnt.remote + cnt.err + cnt.reg

\* The local peers of the federated broker, beside the upstream itself.
FedObjs == {"pb", "pc"}

\* The local publisher: origin id and source.
LocalPublisher == <<"a", "alice">>

\* Another client of the remote broker: transport address and source.
RemoteClient == <<"10.0.0.9:999", "srv">>

sortStringsNoSort(s) == s

\* sort.Strings: insertion sort.
RECURSIVE sortStrings(_)
sortStrings(s) ==
    IF Len(s) <= 1
    THEN s
    ELSE LET rest == sortStrings(Tail(s))
             x == Head(s)
             k == Cardinality({i \in 1..Len(rest) : StrLess(rest[i], x)})
         IN  SubSeq(rest, 1, k) \o <<x>> \o SubSeq(rest, k + 1, Len(rest))

\* OnPeerChange: the desired filter map built from the snapshot.
wantOf(filters) ==
    [cb \in {filters[i].Clipboard : i \in 1..Len(filters)} |->
        LET last == CHOOSE i \in 1..Len(filters) :
                        /\ filters[i].Clipboard = cb
                        /\ \A j \in 1..Len(filters) : filters[j].Clipboard = cb => j <= i
        IN  sortStrings(filters[last].Accepts)]

\* startStream: a new stream loop, about to open its Watch stream.  prev,
\* repeated and gen are history: the items the loop last published into the
\* local hub, whether it ever published the same items twice in a row, and
\* the number of the OnPeerChange call that started the loop (0: the calls
\* before the initial state).
startStream(cb, f) ==
    [accepts |-> f, st |-> "connecting", lastItems |-> <<>>,
     prev |-> <<>>, repeated |-> FALSE, gen |-> cnt.reg]

alreadyCorrectNever(want, cb) == FALSE

\* OnPeerChange: whether the clipboard's stream is left as it is.
alreadyCorrect(want, cb) == cb \in DOMAIN wantFilters /\ wantFilters[cb] = want[cb]

\* OnPeerChange: the clipboards whose stream loop is cancelled and awaited.
cancelledBy(want) ==
    {cb \in DOMAIN streams : cb \notin DOMAIN want \/ ~alreadyCorrect(want, cb)}

\* OnPeerChange(filters), under streamsMu; a cancelled loop has returned when
\* its done channel is closed, and its Watch stream is gone with it.
OnPeerChange(filters) ==
    LET want == wantOf(filters)
        kept == {cb \in DOMAIN want : alreadyCorrect(want, cb) /\ cb \in DOMAIN streams}
        started == {cb \in DOMAIN want : ~alreadyCorrect(want, cb)}
    IN  /\ streams' = [cb \in kept \cup started |->
                          IF cb \in kept
                          THEN streams[cb]
                          ELSE [startStream(cb, want[cb]) EXCEPT !.gen = cnt.reg + 1]]
        /\ wantFilters' = [cb \in DOMAIN want |->
                              IF alreadyCorrect(want, cb) THEN wantFilters[cb] ELSE want[cb]]
        /\ wire' = [cb \in CanonClipboards |->
                       IF cb \in cancelledBy(want) THEN <<>> ELSE wire[cb]]
        /\ cbFilters' = filters

\* Upstream.Send: enqueue, or drop when the channel is full.  The origin is
\* history: the origin id of the Publish that delivered the event.
upstreamSend(ch, ev, origin) ==
    IF Len(ch) < sendChCap THEN Append(ch, [ev |-> ev, origin |-> origin]) ELSE ch

\* Hub.Publish on the local hub, as one step.  Deliveries to the local Watch
\* subscribers are kept in lastLocal.sentTo; the upstream's goes to sendCh.
LocalHubPublish(items, clipboardName, originID, source) ==
    LET cb == canonicalize(clipboardName)
        targets == publishTargets(peers, cb, originID)
        sent == {p \in targets : Len(filterItems(items, Info(p).AcceptedTypes)) > 0}
    IN  /\ latest' = MapPut(latest, cb, items)
        /\ latestSource' = MapPut(latestSource, cb, source)
        /\ sendCh' = IF "up" \in sent
                     THEN upstreamSend(sendCh, Event(source, cb, items), originID)
                     ELSE sendCh
        /\ lastLocal' = [has |-> TRUE, origin |-> originID, name |-> clipboardName,
                         items |-> items, source |-> source, peersAt |-> peers,
                         sentTo |-> sent, enq |-> "up" \in sent /\ Len(sendCh) < sendChCap]

\* A local client publishes (Service.Copy on the federated broker).
FedLocalPublish(items, clipboardName) ==
    /\ FedOps < MaxFedOps
    /\ LocalHubPublish(items, clipboardName, LocalPublisher[1], LocalPublisher[2])
    /\ cnt' = [cnt EXCEPT !.local = @ + 1]
    /\ UNCHANGED <<peers, listener, th, inbox, used, gone, nops, lastPub, filterVars, peerVars,
                   streams, wantFilters, wire, rLatest, rLatestSource, cbFilters>>
    /\ UNCHANGED run

\* Hub.Register of a local Watch subscriber, with the listener's OnPeerChange.
FedRegister(p) ==
    /\ p \in FedObjs \ used
    /\ FedOps < MaxFedOps
    /\ peers' = MapPut(peers, ID(p), p)
    /\ used' = used \cup {p}
    /\ \E filters \in clipboardFiltersLocked(MapPut(peers, ID(p), p)) : OnPeerChange(filters)
    /\ cnt' = [cnt EXCEPT !.reg = @ + 1]
    /\ UNCHANGED <<latest, latestSource, listener, th, inbox, gone, nops, lastPub,
                   filterVars, peerVars, sendCh, rLatest, rLatestSource, lastLocal>>
    /\ UNCHANGED run

\* Hub.Unregister of a local Watch subscriber, with OnPeerChange.
FedUnregister(p) ==
    /\ p \in (used \ gone) \ {"up"}
    /\ FedOps < MaxFedOps
    /\ peers' = MapDelete(peers, ID(p))
    /\ gone' = gone \cup {p}
    /\ \E filters \in clipboardFiltersLocked(MapDelete(peers, ID(p))) : OnPeerChange(filters)
    /\ cnt' = [cnt EXCEPT !.reg = @ + 1]
    /\ UNCHANGED <<latest, latestSource, listener, th, inbox, used, nops, lastPub,
                   filterVars, peerVars, sendCh, rLatest, rLatestSource, lastLocal>>
    /\ UNCHANGED run

\* The remote hub's peers: the watchPeer of every open Watch stream.
remotePeers ==
    [id \in {watchID(DownAddr, cb) : cb \in {c \in DOMAIN streams : streams[c].st = "open"}} |->
        WatchObj(id[3])]

\* Hub.Publish on the remote hub, as one step: the frames its Watch handlers
\* write to the downstream's streams are appended to the wire.
remotePublish(items, cb, originID, source) ==
    /\ rLatest' = MapPut(rLatest, cb, items)
    /\ rLatestSource' = MapPut(rLatestSource, cb, source)
    /\ wire' = [c \in CanonClipboards |->
                   IF /\ WatchObj(c) \in publishTargets(remotePeers, cb, originID)
                      /\ Len(filterItems(items, Info(WatchObj(c)).AcceptedTypes)) > 0
                   THEN Append(wire[c],
                               Event(source, cb, filterItems(items, Info(WatchObj(c)).AcceptedTypes)))
                   ELSE wire[c]]

\* sourceFromCtx: the x-suffuse-source metadata, else the fallback.
sourceFromCtx(metaSource, fallback) == IF metaSource # "" THEN metaSource ELSE fallback

\* Service.Copy on the remote broker, called from transport address addr.
serviceCopy(req, addr, metaSource) ==
    IF Len(req.Items) = 0
    THEN UNCHANGED <<rLatest, rLatestSource, wire>>
    ELSE remotePublish(req.Items, canonicalize(req.Clipboard), <<addr>>,
                       sourceFromCtx(metaSource, req.Source))

\* Upstream.Run, one iteration of the forward loop: Copy of the next event.
Forward ==
    /\ run.st \in {"running", "cancelled"}
    /\ Len(sendCh) > 0
    /\ sendCh' = Tail(sendCh)
    /\ serviceCopy(Head(sendCh).ev, DownAddr, DownSource)
    /\ cnt' = [cnt EXCEPT !.copies = @ + 1]
    /\ UNCHANGED <<peers, latest, latestSource, listener, th, inbox, used, gone, nops,
                   lastPub, filterVars, peerVars, streams, wantFilters, cbFilters, lastLocal>>
    /\ UNCHANGED run

\* Another client of the remote broker copies items there.
RemotePublish(items, cb) ==
    /\ FedOps < MaxFedOps
    /\ serviceCopy(Event(RemoteClient[2], cb, items), RemoteClient[1], "")
    /\ cnt' = [cnt EXCEPT !.remote = @ + 1]
    /\ UNCHANGED <<peers, latest, latestSource, listener, th, inbox, used, gone, nops,
                   lastPub, filterVars, peerVars, sendCh, streams, wantFilters, cbFilters, lastLocal>>
    /\ UNCHANGED run

\* runStream opens the Watch stream: the remote broker registers a watchPeer
\* and replays its latest items; lastItems starts empty.
StreamConnect(cb) ==
    /\ cb \in DOMAIN streams
    /\ streams[cb].st = "connecting"
    /\ run.st \notin {"closed", "done"}
    /\ streams' = [streams EXCEPT ![cb].st = "open", ![cb].lastItems = <<>>]
    /\ wire' = [wire EXCEPT ![cb] =
                   registerReplay([p |-> WatchObj(cb), cb |-> cb,
                                   latest |-> MapGet(rLatest, cb, <<>>),
                                   src |-> MapGet(rLatestSource, cb, "")])]
    /\ UNCHANGED <<peers, latest, latestSource, listener, th, inbox, used, gone, nops,
                   lastPub, filterVars, peerVars, sendCh, wantFilters, rLatest, rLatestSource,
                   cbFilters, cnt, lastLocal>>
    /\ UNCHANGED run

\* runStream, one iteration of the receive loop.
StreamRecv(cb) ==
    /\ cb \in DOMAIN streams
    /\ streams[cb].st = "open"
    /\ Len(wire[cb]) > 0
    /\ wire' = [wire EXCEPT ![cb] = Tail(@)]
    /\ LET ev == Head(wire[cb])
       IN  IF Len(ev.Items) = 0 \/ ev.Items = streams[cb].lastItems
           THEN UNCHANGED <<streams, latest, latestSource, sendCh, lastLocal>>
           ELSE /\ streams' = [streams EXCEPT
                                  ![cb].lastItems = ev.Items,
                                  ![cb].prev = ev.Items,
                                  ![cb].repeated = @ \/ ev.Items = streams[cb].prev]
                /\ LocalHubPublish(ev.Items, ev.Clipboard, upstreamOriginID, ev.Source)
    /\ UNCHANGED <<peers, listener, th, inbox, used, gone, nops, lastPub, filterVars, peerVars,
                   wantFilters, rLatest, rLatestSource, cbFilters, cnt>>
    /\ UNCHANGED run

\* The Watch stream fails (Recv returns an error): the remote broker
\* unregisters its watchPeer, the frames in flight are lost, and streamLoop
\* goes on to call runStream again.
StreamError(cb) ==
    /\ cb \in DOMAIN streams
    /\ streams[cb].st = "open"
    /\ FedOps < MaxFedOps
    /\ streams' = [streams EXCEPT ![cb].st = "connecting"]
    /\ wire' = [wire EXCEPT ![cb] = <<>>]
    /\ cnt' = [cnt EXCEPT !.err = @ + 1]
    /\ UNCHANGED <<peers, latest, latestSource, listener, th, inbox, used, gone, nops,
                   lastPub, filterVars, peerVars, sendCh, wantFilters, rLatest, rLatestSource,
                   cbFilters, lastLocal>>
    /\ UNCHANGED run

\* ---------------------------------------------- federation: shutdown

\* The context passed to Upstream.Run is cancelled.
CancelRun ==
    /\ run.st = "running"
    /\ run' = [run EXCEPT !.st = "cancelled"]
    /\ UNCHANGED <<peers, latest, latestSource, listener, th, inbox, used, gone, nops,
                   lastPub, filterVars, peerVars, sendCh, streams, wantFilters, wire, rLatest,
                   rLatestSource, cbFilters, cnt, lastLocal>>

teardownStreamsSkipped(ss) == ss

\* Run's deferred loop under streamsMu: every handle is cancelled, its done
\* awaited, and its entry deleted.
teardownStreams(ss) == [cb \in {} |-> ss[cb]]

\* Run: the select takes ctx.Done and the deferred teardown cancels the
\* streams.  The remote broker unregisters the watchPeers of the streams that
\* end, and their frames in flight are lost.
RunExit ==
    /\ run.st = "cancelled"
    /\ run' = [st |-> "closing", cancelled |-> DOMAIN streams]
    /\ streams' = teardownStreams(streams)
    /\ wire' = [cb \in CanonClipboards |->
                   IF cb \in DOMAIN teardownStreams(streams) THEN wire[cb] ELSE <<>>]
    /\ UNCHANGED <<peers, latest, latestSource, listener, th, inbox, used, gone, nops,
                   lastPub, filterVars, peerVars, sendCh, wantFilters, rLatest, rLatestSource,
                   cbFilters, cnt, lastLocal>>

\* Run's teardown: u.conn.Close().  Streams opened on the connection since
\* the teardown loop fail with it.
RunClose ==
    /\ run.st = "closing"
    /\ run' = [run EXCEPT !.st = "closed"]
    /\ streams' = [cb \in DOMAIN streams |->
                      IF streams[cb].st = "open"
                      THEN [streams[cb] EXCEPT !.st = "ended"]
                      ELSE streams[cb]]
    /\ wire' = [cb \in CanonClipboards |-> <<>>]
    /\ UNCHANGED <<peers, latest, latestSource, listener, th, inbox, used, gone, nops,
                   lastPub, filterVars, peerVars, sendCh, wantFilters, rLatest, rLatestSource,
                   cbFilters, cnt, lastLocal>>

\* Run's teardown: u.h.Unregister(u), with the listener's OnPeerChange; Run
\* returns.
RunUnregister ==
    /\ run.st = "closed"
    /\ run' = [run EXCEPT !.st = "done"]
    /\ peers' = MapDelete(peers, ID("up"))
    /\ gone' = gone \cup {"up"}
    /\ \E filters \in clipboardFiltersLocked(MapDelete(peers, ID("up"))) : OnPeerChange(filters)
    /\ UNCHANGED <<latest, latestSource, listener, th, inbox, used, nops, lastPub,
                   filterVars, peerVars, sendCh, rLatest, rLatestSource, cnt, lastLocal>>

\* runStream on the closed connection: Watch fails with the connection's
\* Canceled status and streamLoop returns.
StreamDialClosed(cb) ==
    /\ cb \in DOMAIN streams
    /\ streams[cb].st = "connecting"
    /\ run.st \in {"closed", "done"}
    /\ streams' = [streams EXCEPT ![cb].st = "ended"]
    /\ UNCHANGED <<peers, latest, latestSource, listener, th, inbox, used, gone, nops,
                   lastPub, filterVars, peerVars, sendCh, wantFilters, wire, rLatest, rLatestSource,
                   cbFilters, cnt, lastLocal, run>>

\* The federated broker after federation.New (listener set, upstream
\* registered), with any of the local subscribers registered, the streams
\* reconciled to them and not yet connected, and nothing published.
FedInit ==
    /\ cnt = NoCalls
    /\ \E S \in SUBSET FedObjs :
         /\ peers \in PeerMaps(S \cup {"up"})
         /\ used = S \cup {"up"}
    /\ \E filters \in clipboardFiltersLocked(peers) :
         /\ cbFilters = filters
         /\ wantFilters = wantOf(filters)
         /\ streams = [cb \in DOMAIN wantOf(filters) |-> startStream(cb, wantOf(filters)[cb])]
    /\ latest = EmptyMap
    /\ latestSource = EmptyMap
    /\ listener = "upstream"
    /\ th = [t \in Threads |-> Idle]
    /\ inbox = [p \in AllObjs |-> <<>>]
    /\ gone = {}
    /\ nops = 0
    /\ lastPub = [cb \in CanonClipboards |-> NoPub]
    /\ FilterIdle
    /\ sendCh = <<>>
    /\ wire = [cb \in CanonClipboards |-> <<>>]
    /\ rLatest = EmptyMap
    /\ rLatestSource = EmptyMap
    /\ lastLocal = NoLocal
    /\ run = Running
    /\ PeerIdle

FedNext ==
    \/ \E items \in PubItems, cn \in PubClipboards : FedLocalPublish(items, cn)
    \/ \E p \in FedObjs : FedRegister(p)
    \/ \E p \in FedObjs : FedUnregister(p)
    \/ Forward
    \/ \E items \in PubItems, cb \in CanonClipboards : RemotePublish(items, cb)
    \/ \E cb \in CanonClipboards : StreamConnect(cb)
    \/ \E cb \in CanonClipboards : StreamRecv(cb)
    \/ \E cb \in CanonClipboards : StreamError(cb)

FedSpec == FedInit /\ [][FedNext]_vars

\* What the local client publishes while the upstream shuts down.
ShutdownItems == <<PngImg, TextYo>>

\* The federated broker with the shutdown of the upstream; Run's goroutine
\* keeps running until it returns.
ShutdownNext ==
    \/ FedLocalPublish(ShutdownItems, "")
    \/ \E p \in FedObjs : FedRegister(p)
    \/ \E p \in FedObjs : FedUnregister(p)
    \/ Forward
    \/ \E cb \in CanonClipboards : StreamConnect(cb)
    \/ \E cb \in CanonClipboards : StreamRecv(cb)
    \/ \E cb \in CanonClipboards : StreamError(cb)
    \/ \E cb \in CanonClipboards : StreamDialClosed(cb)
    \/ CancelRun
    \/ RunExit
    \/ RunClose
    \/ RunUnregister

ShutdownSpec ==
    /\ FedInit
    /\ [][ShutdownNext]_vars
    /\ WF_vars(RunExit)
    /\ WF_vars(RunClose)
    /\ WF_vars(RunUnregister)

\* ---------------------------------------- federation: the stream loops

\* reconnectDelay and maxReconnect, in seconds.
reconnectDelay == 1
maxReconnect == 30

\* The number of attempts that fail while the streams are reconciled, and
\* of OnPeerChange calls.
MaxStreamFails == 1
MaxReconciles == 2

\* The desired filter maps OnPeerChange builds from its argument.
WantMaps ==
    {w \in UNION {[S -> {<<>>, <<"text/plain">>}] : S \in SUBSET {"default", "scratch"}} :
        "scratch" \in DOMAIN w => w["scratch"] = <<>>}

\* Everything the stream loops and their reconciliation leave alone.
loopFrame == <<peers, latest, latestSource, listener, th, inbox, used, gone, nops, lastPub,
               filterVars, sendCh, wire, rLatest, rLatestSource, cbFilters, lastLocal,
               watchCh, qh, localCh, lp, wh>>

\* Upstream.Info: ConnectedAt, 0 for none.  The loop over the map keeps the
\* earliest time.
infoConnectedAt ==
    IF DOMAIN connectedAt = {}
    THEN 0
    ELSE LET times == {connectedAt[cb] : cb \in DOMAIN connectedAt}
         IN  CHOOSE t \in times : \A o \in times : t <= o

\* OnPeerChange takes streamsMu with the desired filter map built.
ReconcileLock(want) ==
    /\ streamsMu.holder = "none"
    /\ cnt.reg < MaxReconciles
    /\ streamsMu' = [Unlocked EXCEPT !.holder = "reconcile", !.want = want]
    /\ cnt' = [cnt EXCEPT !.reg = @ + 1]
    /\ UNCHANGED <<loopFrame, streams, wantFilters, run, loops, connectedAt>>

\* Run's deferred function takes streamsMu.
TeardownLock ==
    /\ streamsMu.holder = "none"
    /\ run.st = "cancelled"
    /\ streamsMu' = [Unlocked EXCEPT !.holder = "teardown"]
    /\ run' = [run EXCEPT !.st = "teardown"]
    /\ UNCHANGED <<loopFrame, streams, wantFilters, cnt, loops, connectedAt>>

\* The streams the holder of streamsMu stops whatever their filter: those of
\* the clipboards no longer needed, or all of them in Run's teardown.
stopped ==
    IF streamsMu.holder = "teardown"
    THEN DOMAIN streams
    ELSE DOMAIN streams \ DOMAIN streamsMu.want

\* h.cancel() on the handle of cb: in OnPeerChange's first loop, in its
\* second loop for a stream whose filter changed, or in Run's teardown.
StreamsCancel(cb) ==
    /\ streamsMu.holder # "none"
    /\ streamsMu.await = "none"
    /\ cb \in DOMAIN streams
    /\ \/ cb \in stopped
       \/ /\ stopped = {}
          /\ cb \in DOMAIN streamsMu.want \ streamsMu.visited
          /\ ~alreadyCorrect(streamsMu.want, cb)
    /\ LET l == streams[cb]
       IN  /\ loops' = IF l \in DOMAIN loops.live
                       THEN [loops EXCEPT !.live[l].cancelled = TRUE]
                       ELSE loops
           /\ streamsMu' = [streamsMu EXCEPT !.await = cb]
    /\ UNCHANGED <<loopFrame, streams, wantFilters, cnt, run, connectedAt>>

awaitDoneSkipped(cb) == TRUE

\* <-h.done on the handle of cb: the loop's goroutine has returned.
awaitDone(cb) == streams[cb] \notin DOMAIN loops.live

\* <-h.done returns and the handle is deleted; OnPeerChange's first loop
\* deletes the clipboard's connectedAt as well.
StreamsAwait ==
    /\ streamsMu.await # "none"
    /\ awaitDone(streamsMu.await)
    /\ streams' = MapDelete(streams, streamsMu.await)
    /\ connectedAt' = IF streamsMu.holder = "reconcile" /\ streamsMu.await \in stopped
                      THEN MapDelete(connectedAt, streamsMu.await)
                      ELSE connectedAt
    /\ streamsMu' = [streamsMu EXCEPT !.await = "none"]
    /\ UNCHANGED <<loopFrame, wantFilters, cnt, run, loops>>

\* startStream: the loop's goroutine, about to call runStream.  at and
\* afterOpen are history: when the loop last opened its stream, and whether
\* the attempt that failed last had opened it.
startLoop(cb, f) ==
    [cb |-> cb, pc |-> "dial", delay |-> reconnectDelay, cancelled |-> FALSE,
     at |-> 0, afterOpen |-> FALSE]

\* OnPeerChange's second loop, for a clipboard with no stream to cancel: it
\* is left alone when its filter is the desired one, and given a new stream
\* otherwise.
StreamsStart(cb) ==
    /\ streamsMu.holder = "reconcile"
    /\ streamsMu.await = "none"
    /\ stopped = {}
    /\ cb \in DOMAIN streamsMu.want \ streamsMu.visited
    /\ streamsMu' = [streamsMu EXCEPT !.visited = @ \cup {cb}]
    /\ IF alreadyCorrect(streamsMu.want, cb)
       THEN UNCHANGED <<streams, wantFilters, loops>>
       ELSE /\ cb \notin DOMAIN streams
            /\ wantFilters' = MapPut(wantFilters, cb, streamsMu.want[cb])
            /\ streams' = MapPut(streams, cb, loops.started + 1)
            /\ loops' = [loops EXCEPT
                   !.started = @ + 1,
                   !.live = MapPut(@, loops.started + 1,
                                   startLoop(cb, streamsMu.want[cb]))]
    /\ UNCHANGED <<loopFrame, cnt, run, connectedAt>>

\* The holder releases streamsMu: OnPeerChange after it has dropped the
\* wantFilters no longer needed, Run's teardown when no stream is left.
StreamsUnlock ==
    /\ streamsMu.await = "none"
    /\ stopped = {}
    /\ \/ /\ streamsMu.holder = "reconcile"
          /\ streamsMu.visited = DOMAIN streamsMu.want
          /\ wantFilters' = [cb \in DOMAIN wantFilters \cap DOMAIN streamsMu.want |->
                                wantFilters[cb]]
          /\ UNCHANGED run
       \/ /\ streamsMu.holder = "teardown"
          /\ run' = [run EXCEPT !.st = "closing"]
          /\ UNCHANGED wantFilters
    /\ streamsMu' = Unlocked
    /\ UNCHANGED <<loopFrame, streams, cnt, loops, connectedAt>>

\* Run's teardown: u.conn.Close().
ConnClose ==
    /\ run.st = "closing"
    /\ run' = [run EXCEPT !.st = "closed"]
    /\ UNCHANGED <<loopFrame, streams, wantFilters, cnt, loops, connectedAt, streamsMu>>

\* runStream: client.Watch returns an error that is not a cancellation;
\* streamLoop deletes connectedAt and starts to wait.
StreamDialFail(l) ==
    /\ l \in DOMAIN loops.live
    /\ loops.live[l].pc = "dial"
    /\ ~loops.live[l].cancelled
    /\ run.st # "closed"
    /\ loops.failsLeft > 0
    /\ loops' = [loops EXCEPT !.failsLeft = @ - 1,
                              !.live[l].pc = "backoff", !.live[l].afterOpen = FALSE]
    /\ connectedAt' = MapDelete(connectedAt, loops.live[l].cb)
    /\ UNCHANGED <<loopFrame, streams, wantFilters, cnt, run, streamsMu>>

\* runStream: client.Watch succeeds and connectedAt is set.
StreamOpen(l) ==
    /\ l \in DOMAIN loops.live
    /\ loops.live[l].pc = "dial"
    /\ ~loops.live[l].cancelled
    /\ run.st # "closed"
    /\ loops' = [loops EXCEPT !.now = @ + 1, !.live[l].pc = "open", !.live[l].at = loops.now + 1]
    /\ connectedAt' = MapPut(connectedAt, loops.live[l].cb, loops.now + 1)
    /\ UNCHANGED <<loopFrame, streams, wantFilters, cnt, run, streamsMu>>

\* runStream: stream.Recv returns an error that is not a cancellation;
\* streamLoop deletes connectedAt and starts to wait.
StreamFail(l) ==
    /\ l \in DOMAIN loops.live
    /\ loops.live[l].pc = "open"
    /\ loops.failsLeft > 0
    /\ loops' = [loops EXCEPT !.failsLeft = @ - 1,
                              !.live[l].pc = "backoff", !.live[l].afterOpen = TRUE]
    /\ connectedAt' = MapDelete(connectedAt, loops.live[l].cb)
    /\ UNCHANGED <<loopFrame, streams, wantFilters, cnt, run, streamsMu>>

\* streamLoop: the delay after a wait.
nextDelay(delay) == IF delay < maxReconnect THEN delay * 2 ELSE delay

\* streamLoop: time.After(delay) fires, the delay is updated and runStream
\* is called again.
StreamRetry(l) ==
    /\ l \in DOMAIN loops.live
    /\ loops.live[l].pc = "backoff"
    /\ loops' = [loops EXCEPT !.live[l].pc = "dial",
                              !.live[l].delay = nextDelay(loops.live[l].delay)]
    /\ UNCHANGED <<loopFrame, streams, wantFilters, cnt, run, connectedAt, streamsMu>>

\* streamLoop returns and done is closed: runStream ends with a cancellation
\* (of the loop's context, or of the closed connection), or the wait is
\* interrupted by ctx.Done().
StreamReturn(l) ==
    /\ l \in DOMAIN loops.live
    /\ \/ loops.live[l].cancelled /\ loops.live[l].pc \in {"dial", "open", "backoff"}
       \/ run.st = "closed" /\ loops.live[l].pc \in {"dial", "open"}
    /\ loops' = [loops EXCEPT !.live = MapDelete(@, l)]
    /\ UNCHANGED <<loopFrame, streams, wantFilters, cnt, run, connectedAt, streamsMu>>

\* The federated broker after federation.New: the upstream registered, no
\* stream yet.
LoopInit ==
    /\ peers \in PeerMaps({"up"})
    /\ used = {"up"}
    /\ latest = EmptyMap
    /\ latestSource = EmptyMap
    /\ listener = "upstream"
    /\ th = [t \in Threads |-> Idle]
    /\ inbox = [p \in AllObjs |-> <<>>]
    /\ gone = {}
    /\ nops = 0
    /\ lastPub = [cb \in CanonClipboards |-> NoPub]
    /\ FilterIdle
    /\ FedIdle
    /\ watchCh = <<>>
    /\ qh = NoQueueHistory
    /\ localCh = <<>>
    /\ lp = NewLocalPeer
    /\ wh = NoWatch
    /\ connectedAt = EmptyMap
    /\ streamsMu = Unlocked
    /\ loops = [NoLoops EXCEPT !.failsLeft = MaxStreamFails]

LoopNext ==
    \/ \E want \in WantMaps : ReconcileLock(want)
    \/ CancelRun
    \/ TeardownLock
    \/ \E cb \in CanonClipboards : StreamsCancel(cb)
    \/ StreamsAwait
    \/ \E cb \in CanonClipboards : StreamsStart(cb)
    \/ StreamsUnlock
    \/ ConnClose
    \/ \E l \in 1..(2 * MaxReconciles) : StreamDialFail(l)
    \/ \E l \in 1..(2 * MaxReconciles) : StreamOpen(l)
    \/ \E l \in 1..(2 * MaxReconciles) : StreamFail(l)
    \/ \E l \in 1..(2 * MaxReconciles) : StreamRetry(l)
    \/ \E l \in 1..(2 * MaxReconciles) : StreamReturn(l)

LoopSpec == LoopInit /\ [][LoopNext]_vars

\* ------------------------------- federation: one stream loop's retries

\* The number of attempts of the loop that fail.
MaxBackoffFails == 6

\* The federated broker after the OnPeerChange call that started the stream
\* loop of the default namespace; FedIdle is overridden in the streams and
\* the desired filters.
BackoffInit ==
    /\ peers \in PeerMaps({"up"})
    /\ used = {"up"}
    /\ latest = EmptyMap
    /\ latestSource = EmptyMap
    /\ listener = "upstream"
    /\ th = [t \in Threads |-> Idle]
    /\ inbox = [p \in AllObjs |-> <<>>]
    /\ gone = {}
    /\ nops = 0
    /\ lastPub = [cb \in CanonClipboards |-> NoPub]
    /\ FilterIdle
    /\ sendCh = <<>>
    /\ streams = [cb \in {"default"} |-> 1]
    /\ wantFilters = [cb \in {"default"} |-> <<>>]
    /\ wire = [cb \in CanonClipboards |-> <<>>]
    /\ rLatest = EmptyMap
    /\ rLatestSource = EmptyMap
    /\ cbFilters = <<>>
    /\ cnt = [NoCalls EXCEPT !.reg = 1]
    /\ lastLocal = NoLocal
    /\ run = Running
    /\ watchCh = <<>>
    /\ qh = NoQueueHistory
    /\ localCh = <<>>
    /\ lp = NewLocalPeer
    /\ wh = NoWatch
    /\ connectedAt = EmptyMap
    /\ streamsMu = Unlocked
    /\ loops = [started |-> 1, now |-> 0, live |-> [l \in {1} |-> startLoop("default", <<>>)],
                failsLeft |-> MaxBackoffFails]

BackoffNext ==
    \/ StreamDialFail(1)
    \/ StreamOpen(1)
    \/ StreamFail(1)
    \/ StreamRetry(1)

BackoffSpec == BackoffInit /\ [][BackoffNext]_vars

\* ------------------------------------------------ the peers' queues

\* Capacity of watchPeer.ch.
watchChCap == 16

MaxQueuePubs == 3
MaxQueueTakes == 3

\* The numbers of publishes made before the first consumer step.
StalledPubs == {0, 15, 63}

\* The registered peers: a Watch subscriber, the upstream and the local
\* clipboard peer.
QueueObjs == {"pc", "up", "lp"}

\* The publisher: a gRPC client, by transport address and source.
QueuePublisher == <<"10.0.0.7:555", "carol">>

\* The items of the n-th publish.
QueueItems(n) == <<[Mime |-> "text/plain", Data |-> n]>>

watchPeerSendEvictsOldest(ch, ev) ==
    IF Len(ch) < watchChCap THEN Append(ch, ev) ELSE Append(Tail(ch), ev)

watchPeerSendPrepends(ch, ev) == IF Len(ch) < watchChCap THEN <<ev>> \o ch ELSE ch

\* watchPeer.Send: enqueue, or drop when the channel is full.
watchPeerSend(ch, ev) == IF Len(ch) < watchChCap THEN Append(ch, ev) ELSE ch

\* Capacity of localpeer.Peer.sendCh.
localSendChCap == 64

\* localpeer.Peer.Send: enqueue, or drop when the channel is full.
localPeerSend(ch, ev) == IF Len(ch) < localSendChCap THEN Append(ch, ev) ELSE ch

\* Hub.Publish, its target selection and delivery loop as one step on the
\* queues of the Watch subscriber, the upstream and the local peer: st is
\* [watchCh, sendCh, localCh].
publishToQueues(st, ps, items, clipboardName, originID, source) ==
    LET cb == canonicalize(clipboardName)
        targets == publishTargets(ps, cb, originID)
        to(p) == p \in targets /\ Len(filterItems(items, Info(p).AcceptedTypes)) > 0
        ev(p) == Event(source, cb, filterItems(items, Info(p).AcceptedTypes))
    IN  [watchCh |-> IF to("pc") THEN watchPeerSend(st.watchCh, ev("pc")) ELSE st.watchCh,
         sendCh |-> IF to("up")
                    THEN upstreamSend(st.sendCh, ev("up"), originID)
                    ELSE st.sendCh,
         localCh |-> IF to("lp") THEN localPeerSend(st.localCh, ev("lp")) ELSE st.localCh]

\* The n-th publish of the gRPC client.
queuePublish(st, ps, n) ==
    publishToQueues(st, ps, QueueItems(n), "", QueuePublisher[1], QueuePublisher[2])

\* The queues st after the publishes numbered lo..hi, none of which a consumer
\* has taken (the range is halved so that the evaluation stays shallow).
RECURSIVE queuePublishRange(_, _, _, _)
queuePublishRange(st, ps, lo, hi) ==
    IF lo > hi THEN st
    ELSE IF lo = hi THEN queuePublish(st, ps, lo)
    ELSE LET mid == (lo + hi) \div 2
         IN  CHOOSE r \in {queuePublishRange(half, ps, mid + 1, hi) :
                              half \in {queuePublishRange(st, ps, lo, mid)}} : TRUE

\* The queues after k publishes none of which a consumer has taken.
StalledQueues(ps, k) ==
    queuePublishRange([watchCh |-> <<>>, sendCh |-> <<>>, localCh |-> <<>>], ps, 1, k)

\* The events the three consumers have taken from their queues so far.
QueueTakes == Len(qh.got) + cnt.copies + lp.taken

\* A gRPC client copies the next items (Service.Copy, Hub.Publish).
QueuePublish ==
    /\ qh.n < qh.base + MaxQueuePubs
    /\ LET n == qh.n + 1
           st == queuePublish([watchCh |-> watchCh, sendCh |-> sendCh, localCh |-> localCh],
                              peers, n)
       IN  /\ watchCh' = st.watchCh
           /\ sendCh' = st.sendCh
           /\ localCh' = st.localCh
           /\ latest' = MapPut(latest, canonicalize(""), QueueItems(n))
           /\ latestSource' = MapPut(latestSource, canonicalize(""), QueuePublisher[2])
           /\ qh' = [qh EXCEPT
                        !.n = n,
                        !.dropped = [p \in DOMAIN @ |->
                            IF (p = "pc" /\ Len(watchCh) >= watchChCap) \/
                               (p = "up" /\ Len(sendCh) >= sendChCap) \/
                               (p = "lp" /\ Len(localCh) >= localSendChCap)
                            THEN @[p] \cup {n}
                            ELSE @[p]]]
    /\ UNCHANGED <<peers, listener, th, inbox, used, gone, nops, lastPub, filterVars,
                   streams, wantFilters, wire, rLatest, rLatestSource, cbFilters, cnt,
                   lastLocal, run, lp, wh, loopVars>>

watchFrameAlwaysItems(ev, metadataOnly) ==
    [Source |-> ev.Source, Clipboard |-> ev.Clipboard, Items |-> ev.Items,
     AvailableTypes |-> [i \in 1..Len(ev.Items) |-> ev.Items[i].Mime]]

\* The pb.WatchResponse built for an event.
watchFrame(ev, metadataOnly) ==
    [Source |-> ev.Source, Clipboard |-> ev.Clipboard,
     Items |-> IF ~metadataOnly THEN ev.Items ELSE <<>>,
     AvailableTypes |-> [i \in 1..Len(ev.Items) |-> ev.Items[i].Mime]]

\* Service.Watch, one iteration of its loop: the next event of wp.ch is
\* written to the stream.
WatchDeliver ==
    /\ wh.st = "loop"
    /\ QueueTakes < MaxQueueTakes
    /\ Len(watchCh) > 0
    /\ watchCh' = Tail(watchCh)
    /\ qh' = [qh EXCEPT !.got = Append(@, Head(watchCh))]
    /\ wh' = [wh EXCEPT !.frames = Append(@, watchFrame(Head(watchCh), wh.metadataOnly)),
                        !.taken = Append(@, Head(watchCh))]
    /\ UNCHANGED <<peers, latest, latestSource, listener, th, inbox, used, gone, nops,
                   lastPub, filterVars, fedVars, localCh, lp, loopVars>>

\* ------------------------------------------------ the Watch handler

\* Everything but the peers' queues and handlers.
hubAndFedVars == <<peers, latest, latestSource, listener, th, inbox, used, gone, nops,
                   lastPub, filterVars, fedVars, loopVars>>

\* The watchPeer of the Watch call.
WatchSubscriber == "pc"

MaxWatchPubs == 3

WatchPubItems == {<<PngImg, TextYo>>, <<TextHi>>, <<>>}

\* Service.Watch up to its loop: the watchPeer is built from the request and
\* registered (Hub.Register: map entry, listener, replay of the latest items).
WatchOpen(metadataOnly) ==
    /\ wh.st = "idle"
    /\ LET p == WatchSubscriber
           ps == registerPut(peers, p)
           cb == canonicalize(Info(p).Clipboard)
           filtered == filterItems(MapGet(latest, cb, <<>>), Info(p).AcceptedTypes)
       IN  /\ peers' = ps
           /\ used' = used \cup {p}
           /\ \E filters \in clipboardFiltersLocked(ps) :
                wh' = [wh EXCEPT !.st = "loop", !.metadataOnly = metadataOnly,
                                 !.cbArg = IF listener # "nil" THEN filters ELSE @]
           /\ watchCh' = IF Len(filtered) > 0
                          THEN watchPeerSend(watchCh, Event(MapGet(latestSource, cb, ""),
                                                            cb, filtered))
                          ELSE watchCh
    /\ UNCHANGED <<latest, latestSource, listener, th, inbox, gone, nops, lastPub,
                   filterVars, fedVars, qh, localCh, lp, loopVars>>

\* The loop's select takes stream.Context().Done(): return nil.
WatchCancel ==
    /\ wh.st = "loop"
    /\ wh' = [wh EXCEPT !.st = "ending", !.why = "cancelled"]
    /\ UNCHANGED <<hubAndFedVars, watchCh, qh, localCh, lp>>

\* The loop takes the next event and stream.Send fails: return err.
WatchSendFail ==
    /\ wh.st = "loop"
    /\ Len(watchCh) > 0
    /\ watchCh' = Tail(watchCh)
    /\ wh' = [wh EXCEPT !.st = "ending", !.why = "send"]
    /\ UNCHANGED <<hubAndFedVars, qh, localCh, lp>>

watchUnregisterSkipped(ps) == ps

\* delete(h.peers, p.ID()) of the deferred s.h.Unregister(wp).
watchUnregister(ps) == MapDelete(ps, ID(WatchSubscriber))

\* The deferred s.h.Unregister(wp) runs and Watch returns.
WatchReturn ==
    /\ wh.st = "ending"
    /\ peers' = watchUnregister(peers)
    /\ gone' = gone \cup {WatchSubscriber}
    /\ \E filters \in clipboardFiltersLocked(watchUnregister(peers)) :
         wh' = [wh EXCEPT !.st = "returned",
                          !.cbArg = IF listener # "nil" THEN filters ELSE @]
    /\ UNCHANGED <<latest, latestSource, listener, th, inbox, used, nops, lastPub,
                   filterVars, fedVars, watchCh, qh, localCh, lp, loopVars>>

copyPublishesAlways(items) == TRUE

\* Service.Copy: a request without items is answered without a Publish.
copyPublishes(items) == Len(items) # 0

\* A gRPC client copies items: Service.Copy, with its Hub.Publish.  lastCopy
\* is history: the items of the request.
WatchPublish(items, clipboardName) ==
    /\ wh.pubs < MaxWatchPubs
    /\ LET queues == [watchCh |-> watchCh, sendCh |-> sendCh, localCh |-> localCh]
           cb == canonicalize(clipboardName)
           st == IF copyPublishes(items)
                 THEN publishToQueues(queues, peers, items, cb,
                                      QueuePublisher[1], QueuePublisher[2])
                 ELSE queues
           stored == IF copyPublishes(items)
                     THEN publishStore([latest |-> latest, latestSource |-> latestSource],
                                       canonicalize(cb), items, QueuePublisher[2])
                     ELSE [latest |-> latest, latestSource |-> latestSource]
       IN  /\ watchCh' = st.watchCh
           /\ sendCh' = st.sendCh
           /\ localCh' = st.localCh
           /\ latest' = stored.latest
           /\ latestSource' = stored.latestSource
           /\ wh' = [wh EXCEPT
                         !.pubs = @ + 1,
                         !.lastCopy = items,
                         !.pubsAfter = IF wh.st = "returned" THEN @ + 1 ELSE @,
                         !.sentAfter = IF wh.st = "returned" /\ st.watchCh # watchCh
                                       THEN @ + 1 ELSE @]
    /\ UNCHANGED <<peers, listener, th, inbox, used, gone, nops, lastPub, filterVars,
                   streams, wantFilters, wire, rLatest, rLatestSource, cbFilters, cnt,
                   lastLocal, run, qh, lp, loopVars>>

\* A hub with a listener and a subscriber of another namespace; no Watch
\* call for the default namespace yet.
WatchInit ==
    /\ peers \in PeerMaps({"pe"})
    /\ used = {"pe"}
    /\ latest = EmptyMap
    /\ latestSource = EmptyMap
    /\ listener = "upstream"
    /\ th = [t \in Threads |-> Idle]
    /\ inbox = [p \in AllObjs |-> <<>>]
    /\ gone = {}
    /\ nops = 0
    /\ lastPub = [cb \in CanonClipboards |-> NoPub]
    /\ FilterIdle
    /\ FedIdle
    /\ PeerIdle

WatchNext ==
    \/ \E metadataOnly \in BOOLEAN : WatchOpen(metadataOnly)
    \/ WatchDeliver
    \/ WatchCancel
    \/ WatchSendFail
    \/ WatchReturn
    \/ \E items \in WatchPubItems, cn \in PubClipboards : WatchPublish(items, cn)

WatchSpec == WatchInit /\ [][WatchNext]_vars /\ WF_vars(WatchReturn)

\* --------------------------- federation: a stream loop and its errors

\* The status codes of the errors stream.Recv returns from the remote
\* broker or the transport.
StatusCodes == {"Unavailable", "Internal", "Canceled"}

\* streamLoop: status.Code(err) == codes.Canceled ends the loop.
loopReturnsOn(code) == code = "Canceled"

\* runStream: stream.Recv returns an error with a status code while the
\* loop's context is not cancelled.  streamLoop returns on Canceled; on
\* any other code it deletes connectedAt and starts to wait.
StreamRecvError(l, code) ==
    /\ l \in DOMAIN loops.live
    /\ loops.live[l].pc = "open"
    /\ ~loops.live[l].cancelled
    /\ loops.failsLeft > 0
    /\ IF loopReturnsOn(code)
       THEN /\ loops' = [loops EXCEPT !.failsLeft = @ - 1, !.live = MapDelete(@, l)]
            /\ UNCHANGED connectedAt
       ELSE /\ loops' = [loops EXCEPT !.failsLeft = @ - 1,
                                      !.live[l].pc = "backoff", !.live[l].afterOpen = TRUE]
            /\ connectedAt' = MapDelete(connectedAt, loops.live[l].cb)
    /\ UNCHANGED <<loopFrame, streams, wantFilters, cnt, run, streamsMu>>

\* One stream loop, its attempts failing with any status code.
ErrorNext ==
    \/ StreamDialFail(1)
    \/ StreamOpen(1)
    \/ \E code \in StatusCodes : StreamRecvError(1, code)
    \/ StreamRetry(1)

ErrorSpec == BackoffInit /\ [][ErrorNext]_vars

\* ------------------------------- the hub's calls with the upstream listening

\* The local subscribers that come and go: two of the default namespace
\* with different accepts, one of another namespace.
NotifyObjs == {"pa", "pb", "pb2"}

\* Hub.Register of a local subscriber, the critical section.
NotifyRegister(t, p) == p \in NotifyObjs \ used /\ hubRegisterLock(t, p)

\* Hub.Unregister of a subscriber whose Register has returned, the critical
\* section.
NotifyUnregister(t, p) ==
    /\ p \in (NotifyObjs \cap used) \ gone
    /\ \A f \in {th[u] : u \in Threads} : f.p # p
    /\ hubUnregisterLock(t, p)

\* h.notifyListener(filters) of a Register or an Unregister, after h.mu was
\* released: the upstream's OnPeerChange runs with the snapshot the call
\* computed under the lock.
NotifyUpstream(t) ==
    /\ th[t].pc \in {"reg_notify", "unreg_notify"}
    /\ listener # "nil"
    /\ th' = [th EXCEPT ![t] =
                 [notifyListener(@, @.filters) EXCEPT
                      !.pc = IF @ = "reg_notify" THEN "reg_send" ELSE "done"]]
    /\ OnPeerChange(th[t].filters)
    /\ cnt' = [cnt EXCEPT !.reg = @ + 1]
    /\ UNCHANGED <<peers, latest, latestSource, listener, inbox, used, gone, nops, lastPub,
                   filterVars, peerVars, sendCh, rLatest, rLatestSource, lastLocal, run>>

\* After federation.New: the listener set, the upstream registered and its
\* OnPeerChange call, with the empty snapshot, returned.
NotifyInit ==
    /\ peers \in PeerMaps({"up"})
    /\ used = {"up"}
    /\ latest = EmptyMap
    /\ latestSource = EmptyMap
    /\ listener = "upstream"
    /\ th = [t \in Threads |-> Idle]
    /\ inbox = [p \in AllObjs |-> <<>>]
    /\ gone = {}
    /\ nops = 0
    /\ lastPub = [cb \in CanonClipboards |-> NoPub]
    /\ FilterIdle
    /\ FedIdle
    /\ PeerIdle

NotifyNext ==
    \/ \E t \in Threads, p \in NotifyObjs : NotifyRegister(t, p)
    \/ \E t \in Threads, p \in NotifyObjs : NotifyUnregister(t, p)
    \/ \E t \in Threads : NotifyUpstream(t)
    \/ \E t \in Threads : RegisterSend(t)
    \/ \E t \in Threads : Return(t)

NotifySpec == NotifyInit /\ [][NotifyNext]_vars

\* ------------------------- the hub mutex, streamsMu and the stream loops

\* The hub calls of the local subscribers, and the events a stream loop
\* receives and publishes into the hub.
MaxLockOps == 1
MaxLoopPubs == 1

\* Two subscribers of the default namespace with different accepts.
LockObjs == {"pa", "pb"}

hubMuHeldThroughReturn(pc) ==
    pc \in {"reg_cs", "unreg_cs", "pub_cs", "reg_notify", "unreg_notify",
            "reg_callback", "unreg_callback", "reg_send", "pub_send"}

\* Where a goroutine holds h.mu: between h.mu.Lock() and h.mu.Unlock() of
\* Register, Unregister and Publish.
hubMuHeldAt(pc) == pc \in {"reg_cs", "unreg_cs", "pub_cs"}

\* h.mu.Lock() returns only when no goroutine holds h.mu.
hubMuFree ==
    /\ \A t \in Threads : ~hubMuHeldAt(th[t].pc)
    /\ \A l \in DOMAIN loops.live : ~hubMuHeldAt(loops.live[l].pc)

\* A goroutine calls Register or Unregister and h.mu.Lock() returns.
HubEnter(t, op, p) ==
    /\ CanStart(t)
    /\ \A u \in Threads : th[u].p # p
    /\ hubMuFree
    /\ th' = [th EXCEPT ![t] =
                 [Idle EXCEPT !.pc = IF op = "Register" THEN "reg_cs" ELSE "unreg_cs",
                              !.op = op, !.p = p]]
    /\ UNCHANGED <<peers, latest, latestSource, listener, inbox, used, gone, lastPub,
                   filterVars, fedVars, peerVars>>

\* Register of a local subscriber.
LockRegister(t, p) ==
    /\ p \in LockObjs \ used
    /\ nops < MaxLockOps
    /\ nops' = nops + 1
    /\ HubEnter(t, "Register", p)

\* Unregister of a local subscriber whose Register has returned.
LockUnregister(t, p) ==
    /\ p \in (LockObjs \cap used) \ gone
    /\ nops < MaxLockOps
    /\ nops' = nops + 1
    /\ HubEnter(t, "Unregister", p)

\* Run's teardown after u.conn.Close(): u.h.Unregister(u).
LockRunUnregister(t) ==
    /\ run.st = "closed"
    /\ "up" \notin gone
    /\ UNCHANGED nops
    /\ HubEnter(t, "Unregister", "up")

\* Register, from the map entry to h.mu.Unlock().
HubRegisterCS(t) ==
    /\ th[t].pc = "reg_cs"
    /\ LET p == th[t].p
           cb == canonicalize(Info(p).Clipboard)
           ps == registerPut(peers, p)
       IN  /\ peers' = ps
           /\ used' = used \cup {p}
           /\ \E filters \in clipboardFiltersLocked(ps) :
                th' = [th EXCEPT ![t].pc = "reg_notify", ![t].cb = cb,
                                 ![t].latest = MapGet(latest, cb, <<>>),
                                 ![t].src = MapGet(latestSource, cb, ""),
                                 ![t].filters = filters, ![t].peersAt = ps,
                                 ![t].prev = peers]
    /\ UNCHANGED <<latest, latestSource, listener, inbox, gone, nops, lastPub,
                   filterVars, fedVars, peerVars>>

\* Unregister, from the delete to h.mu.Unlock().
HubUnregisterCS(t) ==
    /\ th[t].pc = "unreg_cs"
    /\ LET ps == MapDelete(peers, ID(th[t].p))
       IN  /\ peers' = ps
           /\ gone' = gone \cup {th[t].p}
           /\ \E filters \in clipboardFiltersLocked(ps) :
                th' = [th EXCEPT ![t].pc = "unreg_notify", ![t].filters = filters,
                                 ![t].peersAt = ps, ![t].prev = peers]
    /\ UNCHANGED <<latest, latestSource, listener, inbox, used, nops, lastPub,
                   filterVars, fedVars, peerVars>>

\* The positions of a goroutine inside the listener's OnPeerChange.
CallbackPcs == {"reg_callback", "unreg_callback"}

\* h.notifyListener(filters): OnPeerChange builds its desired map and
\* u.streamsMu.Lock() returns.  A goroutine whose OnPeerChange has unlocked
\* leaves it before the next one is let in.
CallbackLock(t) ==
    /\ th[t].pc \in {"reg_notify", "unreg_notify"}
    /\ listener # "nil"
    /\ streamsMu.holder = "none"
    /\ \A u \in Threads : th[u].pc \notin CallbackPcs
    /\ streamsMu' = [Unlocked EXCEPT !.holder = "reconcile", !.want = wantOf(th[t].filters)]
    /\ th' = [th EXCEPT ![t] =
                 [notifyListener(@, @.filters) EXCEPT
                      !.pc = IF @ = "reg_notify" THEN "reg_callback" ELSE "unreg_callback"]]
    /\ UNCHANGED <<peers, latest, latestSource, listener, inbox, used, gone, nops, lastPub,
                   filterVars, sendCh, streams, wantFilters, wire, rLatest, rLatestSource,
                   cbFilters, lastLocal, cnt, run, watchCh, qh, localCh, lp, wh, loops,
                   connectedAt>>

\* OnPeerChange has released streamsMu and returns to Register or Unregister.
CallbackReturn(t) ==
    /\ th[t].pc \in CallbackPcs
    /\ streamsMu.holder # "reconcile"
    /\ th' = [th EXCEPT ![t].pc = IF @ = "reg_callback" THEN "reg_send" ELSE "done"]
    /\ UNCHANGED <<peers, latest, latestSource, listener, inbox, used, gone, nops, lastPub,
                   filterVars, fedVars, peerVars>>

\* What the remote broker sends on a stream.
LoopEvent(cb) == Event("srv", cb, <<TextHi>>)

\* runStream: stream.Recv returns an event with new items and u.h.Publish
\* is called: the loop's goroutine is at h.mu.Lock().
LoopRecv(l) ==
    /\ l \in DOMAIN loops.live
    /\ loops.live[l].pc = "open"
    /\ run.st # "closed"
    /\ cnt.remote < MaxLoopPubs
    /\ cnt' = [cnt EXCEPT !.remote = @ + 1]
    /\ loops' = [loops EXCEPT !.live[l].pc = "pub_lock"]
    /\ UNCHANGED <<loopFrame, streams, wantFilters, run, connectedAt, streamsMu>>

\* Publish called by the loop: h.mu.Lock() returns.
LoopPublishEnter(l) ==
    /\ l \in DOMAIN loops.live
    /\ loops.live[l].pc = "pub_lock"
    /\ hubMuFree
    /\ loops' = [loops EXCEPT !.live[l].pc = "pub_cs"]
    /\ UNCHANGED <<loopFrame, streams, wantFilters, cnt, run, connectedAt, streamsMu>>

\* Publish called by the loop, from the store to h.mu.Unlock(); the targets
\* are those among the peers kept in lastLocal.peersAt.
LoopPublishCS(l) ==
    /\ l \in DOMAIN loops.live
    /\ loops.live[l].pc = "pub_cs"
    /\ LET ev == LoopEvent(loops.live[l].cb)
           stored == publishStore([latest |-> latest, latestSource |-> latestSource],
                                  canonicalize(ev.Clipboard), ev.Items, ev.Source)
       IN  /\ latest' = stored.latest
           /\ latestSource' = stored.latestSource
           /\ lastLocal' = [NoLocal EXCEPT !.has = TRUE, !.origin = upstreamOriginID,
                                           !.name = ev.Clipboard, !.items = ev.Items,
                                           !.source = ev.Source, !.peersAt = peers]
    /\ loops' = [loops EXCEPT !.live[l].pc = "pub_send"]
    /\ UNCHANGED <<peers, listener, th, inbox, used, gone, nops, lastPub, filterVars,
                   sendCh, streams, wantFilters, wire, rLatest, rLatestSource, cbFilters,
                   cnt, run, watchCh, qh, localCh, lp, wh, connectedAt, streamsMu>>

\* Publish called by the loop, the delivery loop after h.mu.Unlock(): each
\* target's Send takes the event or drops it, none blocks.
LoopPublishSend(l) ==
    /\ l \in DOMAIN loops.live
    /\ loops.live[l].pc = "pub_send"
    /\ LET cb == canonicalize(lastLocal.name)
           targets == publishTargets(lastLocal.peersAt, cb, lastLocal.origin)
           sent == {p \in targets :
                       Len(filterItems(lastLocal.items, Info(p).AcceptedTypes)) > 0}
       IN  /\ inbox' = [p \in DOMAIN inbox |->
                           IF p \in sent
                           THEN Append(inbox[p],
                                       [ev |-> Event(lastLocal.source, cb,
                                                     filterItems(lastLocal.items,
                                                                 Info(p).AcceptedTypes)),
                                        kind |-> "publish"])
                           ELSE inbox[p]]
           /\ lastLocal' = [lastLocal EXCEPT !.sentTo = sent]
    /\ loops' = [loops EXCEPT !.live[l].pc = "open"]
    /\ UNCHANGED <<peers, latest, latestSource, listener, th, used, gone, nops, lastPub,
                   filterVars, sendCh, streams, wantFilters, wire, rLatest, rLatestSource,
                   cbFilters, cnt, run, watchCh, qh, localCh, lp, wh, connectedAt,
                   streamsMu>>

\* The subscriber "pa" is registered and OnPeerChange has started the stream
\* of its namespace, whose loop is dialling.
LockInit ==
    /\ peers \in PeerMaps({"up", "pa"})
    /\ used = {"up", "pa"}
    /\ latest = EmptyMap
    /\ latestSource = EmptyMap
    /\ listener = "upstream"
    /\ th = [t \in Threads |-> Idle]
    /\ inbox = [p \in AllObjs |-> <<>>]
    /\ gone = {}
    /\ nops = 0
    /\ lastPub = [cb \in CanonClipboards |-> NoPub]
    /\ FilterIdle
    /\ sendCh = <<>>
    /\ streams = [cb \in {canonicalize(Info("pa").Clipboard)} |-> 1]
    /\ wantFilters = [cb \in {canonicalize(Info("pa").Clipboard)} |->
                         Info("pa").AcceptedTypes]
    /\ wire = [cb \in CanonClipboards |-> <<>>]
    /\ rLatest = EmptyMap
    /\ rLatestSource = EmptyMap
    /\ cbFilters = <<>>
    /\ cnt = [NoCalls EXCEPT !.reg = 1]
    /\ lastLocal = NoLocal
    /\ run = Running
    /\ watchCh = <<>>
    /\ qh = NoQueueHistory
    /\ localCh = <<>>
    /\ lp = NewLocalPeer
    /\ wh = NoWatch
    /\ connectedAt = EmptyMap
    /\ streamsMu = Unlocked
    /\ loops = [started |-> 1, now |-> 0,
                live |-> [l \in {1} |-> startLoop(canonicalize(Info("pa").Clipboard),
                                                  Info("pa").AcceptedTypes)],
                failsLeft |-> 0]

\* The steps of goroutines that are running: everything but the start of a
\* subscriber's call, the cancellation of Run's context and the arrival of an
\* event from the remote broker.
LockProgress ==
    \/ \E t \in Threads : LockRunUnregister(t)
    \/ \E t \in Threads : HubRegisterCS(t)
    \/ \E t \in Threads : HubUnregisterCS(t)
    \/ \E t \in Threads : CallbackLock(t)
    \/ \E cb \in CanonClipboards : StreamsCancel(cb)
    \/ StreamsAwait
    \/ \E cb \in CanonClipboards : StreamsStart(cb)
    \/ StreamsUnlock
    \/ \E t \in Threads : CallbackReturn(t)
    \/ \E t \in Threads : RegisterSend(t)
    \/ \E t \in Threads : Return(t)
    \/ TeardownLock
    \/ ConnClose
    \/ \E l \in 1..(MaxLockOps + 2) : StreamOpen(l)
    \/ \E l \in 1..(MaxLockOps + 2) : LoopPublishEnter(l)
    \/ \E l \in 1..(MaxLockOps + 2) : LoopPublishCS(l)
    \/ \E l \in 1..(MaxLockOps + 2) : LoopPublishSend(l)
    \/ \E l \in 1..(MaxLockOps + 2) : StreamReturn(l)

LockNext ==
    \/ \E t \in Threads, p \in LockObjs : LockRegister(t, p)
    \/ \E t \in Threads, p \in LockObjs : LockUnregister(t, p)
    \/ CancelRun
    \/ \E l \in 1..(MaxLockOps + 2) : LoopRecv(l)
    \/ LockProgress

\* Every goroutine that can take a step eventually takes one.
LockSpec == LockInit /\ [][LockNext]_vars /\ WF_vars(LockProgress)

\* ------------------------------------ the service: Watch and Copy calls

\* The watchPeers of the Watch calls: "w1" and "w2" are two streams of the
\* client at ClientAddr on the default namespace, "w3" is a stream of the
\* client at OtherAddr.
ServiceObjs == {"w1", "w2", "w3"}

CopyItems == {<<TextHi>>, <<PngImg, TextYo>>}

CopyAddrs == {ClientAddr, OtherAddr}

\* The origin id Copy hands to Publish: addrFromCtx(ctx).
copyOrigin(addr, cb) == <<addr>>

\* Service.Watch up to its loop: the watchPeer with id addr/watch/cb is
\* built and s.h.Register(wp) is called.
ServiceWatch(t, w) == w \in ServiceObjs \ used /\ hubRegisterLock(t, w)

\* Service.Watch returns: the deferred s.h.Unregister(wp) of a stream whose
\* Register has returned.
ServiceWatchEnd(t, w) ==
    /\ w \in (ServiceObjs \cap used) \ gone
    /\ \A f \in {th[u] : u \in Threads} : f.p # w
    /\ hubUnregisterLock(t, w)

\* Service.Copy of a request with items, from the client at addr.
ServiceCopy(t, addr, items, clipboardName) ==
    /\ copyPublishes(items)
    /\ PublishLock(t, items, canonicalize(clipboardName),
                   copyOrigin(addr, canonicalize(clipboardName)),
                   sourceFromCtx("", addr))

\* The broker without federation: no peer, no listener, nothing published.
ServiceInit ==
    /\ peers = EmptyMap
    /\ used = {}
    /\ latest = EmptyMap
    /\ latestSource = EmptyMap
    /\ listener = "nil"
    /\ th = [t \in Threads |-> Idle]
    /\ inbox = [p \in ServiceObjs |-> <<>>]
    /\ gone = {}
    /\ nops = 0
    /\ lastPub = [cb \in CanonClipboards |-> NoPub]
    /\ FilterIdle
    /\ FedIdle
    /\ PeerIdle

ServiceNext ==
    \/ \E t \in Threads, w \in ServiceObjs : ServiceWatch(t, w)
    \/ \E t \in Threads : RegisterNotify(t)
    \/ \E t \in Threads : RegisterSend(t)
    \/ \E t \in Threads, w \in ServiceObjs : ServiceWatchEnd(t, w)
    \/ \E t \in Threads : UnregisterNotify(t)
    \/ \E t \in Threads, addr \in CopyAddrs, items \in CopyItems :
         ServiceCopy(t, addr, items, "")
    \/ \E t \in Threads : PublishSend(t)
    \/ \E t \in Threads : Return(t)

ServiceSpec == ServiceInit /\ [][ServiceNext]_vars

\* ------------------------------------------------ the local clipboard peer

\* linuxBackend.Write: the items are written one by one, text to the text
\* slot and PNG to the image slot; an unsupported type ends the call with an
\* error, the earlier items staying written.  b is [text, img, err].
RECURSIVE backendWrite(_, _)
backendWrite(b, items) ==
    IF Len(items) = 0 THEN b
    ELSE LET it == Head(items)
         IN  CASE it.Mime = "text/plain" ->
                    backendWrite([b EXCEPT !.text = <<it.Data>>], Tail(items))
               [] it.Mime = "image/png" ->
                    backendWrite([b EXCEPT !.img = <<it.Data>>], Tail(items))
               [] OTHER -> [b EXCEPT !.err = TRUE]

\* linuxBackend.Read: the text item, if any, then the image item, if any.
backendRead(text, img) ==
    (IF Len(text) > 0 THEN <<[Mime |-> "text/plain", Data |-> text[1]]>> ELSE <<>>) \o
    (IF Len(img) > 0 THEN <<[Mime |-> "image/png", Data |-> img[1]]>> ELSE <<>>)

\* Peer.source of the local peer.
LocalSource == "server"

\* Writer goroutine, up to the comparison: the next event of sendCh is taken;
\* an empty one, or one equal to lastItems, is skipped.
WriterRecv ==
    /\ lp.w.pc = "recv"
    /\ Len(localCh) > 0
    /\ localCh' = Tail(localCh)
    /\ LET ev == Head(localCh)
       IN  lp' = [lp EXCEPT
                     !.taken = @ + 1,
                     !.w = IF Len(ev.Items) = 0 \/ ev.Items = lp.lastItems
                           THEN [pc |-> "recv"]
                           ELSE [pc |-> "write", ev |-> ev]]
    /\ UNCHANGED <<hubAndFedVars, wh, watchCh, qh>>

afterWriteAlwaysRecords(err, ev) == [pc |-> "record", ev |-> ev]

\* Writer goroutine, after backend.Write: on an error the loop continues with
\* the next event, else lastItems and lastSeen are to be updated.
afterWrite(err, ev) == IF err THEN [pc |-> "recv"] ELSE [pc |-> "record", ev |-> ev]

\* Writer goroutine: backend.Write(ev.Items).
WriterWrite ==
    /\ lp.w.pc = "write"
    /\ LET l == lp
           b == backendWrite([text |-> l.text, img |-> l.img, err |-> FALSE], l.w.ev.Items)
       IN  lp' = [l EXCEPT
                     !.text = b.text,
                     !.img = b.img,
                     !.by = IF <<b.text, b.img>> = <<l.text, l.img>> THEN @ ELSE "writer",
                     !.written = Append(@, l.w.ev.Items),
                     !.w = afterWrite(b.err, l.w.ev)]
    /\ UNCHANGED <<hubAndFedVars, wh, watchCh, qh, localCh>>

\* Writer goroutine, after a successful write: p.lastItems = ev.Items and
\* p.lastSeen = time.Now().  lastSeen counts the times it has been set.
WriterRecord ==
    /\ lp.w.pc = "record"
    /\ lp' = [lp EXCEPT !.lastItems = lp.w.ev.Items, !.lastSeen = @ + 1,
                        !.w = [pc |-> "recv"]]
    /\ UNCHANGED <<hubAndFedVars, wh, watchCh, qh, localCh>>

\* linuxBackend.poll, one tick on which the clipboard differs from what the
\* last tick saw: a signal is put on watchCh (capacity 1).
BackendPoll ==
    /\ <<lp.text, lp.img>> # lp.polled
    /\ lp' = [lp EXCEPT !.polled = <<lp.text, lp.img>>, !.pending = TRUE]
    /\ UNCHANGED <<hubAndFedVars, wh, watchCh, qh, localCh>>

\* Watcher loop, one iteration: on a signal of backend.Watch the clipboard is
\* read; empty items and items equal to lastItems are skipped; anything else
\* becomes lastItems and is published with the local peer as origin.
WatcherStep ==
    /\ lp.pending
    /\ LET items == backendRead(lp.text, lp.img)
           st == publishToQueues([watchCh |-> watchCh, sendCh |-> sendCh, localCh |-> localCh],
                                 peers, items, DefaultClipboard, ID("lp"), LocalSource)
       IN  IF Len(items) = 0 \/ items = lp.lastItems
           THEN /\ lp' = [lp EXCEPT !.pending = FALSE]
                /\ UNCHANGED <<latest, latestSource, watchCh, sendCh, localCh>>
           ELSE /\ lp' = [lp EXCEPT
                              !.pending = FALSE,
                              !.lastItems = items,
                              !.lastSeen = @ + 1,
                              !.published = Append(@, [items |-> items, by |-> lp.by,
                                                       written |-> lp.written])]
                /\ latest' = MapPut(latest, canonicalize(DefaultClipboard), items)
                /\ latestSource' = MapPut(latestSource, canonicalize(DefaultClipboard),
                                          LocalSource)
                /\ watchCh' = st.watchCh
                /\ sendCh' = st.sendCh
                /\ localCh' = st.localCh
    /\ UNCHANGED <<peers, listener, th, inbox, used, gone, nops, lastPub, filterVars,
                   streams, wantFilters, wire, rLatest, rLatestSource, cbFilters, cnt,
                   lastLocal, run, qh, wh, loopVars>>

MaxLocalOps == 3

\* What remote clients publish, and what the user of this machine copies.
InboundItems == {<<TextHi>>, <<PngImg, TextYo>>, <<TextHi, HtmlDoc>>}

UserItems == {<<TextYo>>}

\* A gRPC client copies items to the default clipboard (Service.Copy,
\* Hub.Publish): the local peer is one of the targets.
LocalInbound(items) ==
    /\ lp.copies < MaxLocalOps
    /\ LET st == publishToQueues([watchCh |-> watchCh, sendCh |-> sendCh, localCh |-> localCh],
                                 peers, items, "", QueuePublisher[1], QueuePublisher[2])
       IN  /\ watchCh' = st.watchCh
           /\ sendCh' = st.sendCh
           /\ localCh' = st.localCh
    /\ latest' = MapPut(latest, canonicalize(""), items)
    /\ latestSource' = MapPut(latestSource, canonicalize(""), QueuePublisher[2])
    /\ lp' = [lp EXCEPT !.copies = @ + 1]
    /\ UNCHANGED <<peers, listener, th, inbox, used, gone, nops, lastPub, filterVars,
                   streams, wantFilters, wire, rLatest, rLatestSource, cbFilters, cnt,
                   lastLocal, run, qh, wh, loopVars>>

\* The user copies something on this machine: another program writes the
\* system clipboard.
UserCopy(items) ==
    /\ lp.copies < MaxLocalOps
    /\ LET b == backendWrite([text |-> <<>>, img |-> <<>>, err |-> FALSE], items)
       IN  lp' = [lp EXCEPT !.text = b.text, !.img = b.img, !.by = "user", !.copies = @ + 1]
    /\ UNCHANGED <<hubAndFedVars, wh, watchCh, qh, localCh>>

\* Peer.Run has registered the local peer; a Watch subscriber is connected.
LocalObjs == {"lp", "pc"}

LocalInit ==
    /\ peers \in PeerMaps(LocalObjs)
    /\ used = LocalObjs
    /\ latest = EmptyMap
    /\ latestSource = EmptyMap
    /\ listener = "nil"
    /\ th = [t \in Threads |-> Idle]
    /\ inbox = [p \in AllObjs |-> <<>>]
    /\ gone = {}
    /\ nops = 0
    /\ lastPub = [cb \in CanonClipboards |-> NoPub]
    /\ FilterIdle
    /\ FedIdle
    /\ PeerIdle

LocalNext ==
    \/ \E items \in InboundItems : LocalInbound(items)
    \/ \E items \in UserItems : UserCopy(items)
    \/ WriterRecv
    \/ WriterWrite
    \/ WriterRecord
    \/ BackendPoll
    \/ WatcherStep

LocalSpec == LocalInit /\ [][LocalNext]_vars

\* The hub with the Watch subscriber and the upstream registered, after k
\* publishes that reached the queues while both consumers were stalled.
QueueInit ==
    /\ peers \in PeerMaps(QueueObjs)
    /\ used = QueueObjs
    /\ \E k \in StalledPubs :
         /\ watchCh = StalledQueues(peers, k).watchCh
         /\ sendCh = StalledQueues(peers, k).sendCh
         /\ localCh = StalledQueues(peers, k).localCh
         /\ qh = [base |-> k, n |-> k, got |-> <<>>,
                  dropped |-> [p \in {"pc", "up", "lp"} |->
                      {i \in 1..k : i > (CASE p = "pc" -> watchChCap
                                            [] p = "up" -> sendChCap
                                            [] p = "lp" -> localSendChCap)}],
                  copied |-> <<>>]
         /\ lp = NewLocalPeer
         /\ wh = [NoWatch EXCEPT !.st = "loop"]
         /\ latest = IF k = 0 THEN EmptyMap ELSE MapPut(EmptyMap, canonicalize(""), QueueItems(k))
         /\ latestSource = IF k = 0 THEN EmptyMap
                           ELSE MapPut(EmptyMap, canonicalize(""), QueuePublisher[2])
    /\ loops = NoLoops
    /\ connectedAt = EmptyMap
    /\ streamsMu = Unlocked
    /\ cnt = NoCalls
    /\ \E filters \in clipboardFiltersLocked(peers) :
         /\ cbFilters = filters
         /\ wantFilters = wantOf(filters)
         /\ streams = [cb \in DOMAIN wantOf(filters) |-> startStream(cb, wantOf(filters)[cb])]
    /\ listener = "upstream"
    /\ th = [t \in Threads |-> Idle]
    /\ inbox = [p \in AllObjs |-> <<>>]
    /\ gone = {}
    /\ nops = 0
    /\ lastPub = [cb \in CanonClipboards |-> NoPub]
    /\ FilterIdle
    /\ wire = [cb \in CanonClipboards |-> <<>>]
    /\ rLatest = EmptyMap
    /\ rLatestSource = EmptyMap
    /\ lastLocal = NoLocal
    /\ run = Running

\* Upstream.Run forwards the next queued event, up to the bound.
QueueForward == QueueTakes < MaxQueueTakes /\ Forward

\* The local peer's writer takes the next queued event, up to the bound.
QueueWriterRecv == QueueTakes < MaxQueueTakes /\ WriterRecv

QueueNext ==
    \/ QueuePublish
    \/ WatchDeliver
    \/ QueueForward
    \/ QueueWriterRecv
    \/ WriterWrite
    \/ WriterRecord

QueueSpec == QueueInit /\ [][QueueNext]_vars

\* ------------------------------------- federation: the forward loop

\* How a client.Copy call ends: it returns no error; it returns an error and
\* the remote broker has not published; it returns an error although the
\* remote broker has published (the answer was lost).
CopyOutcomes == {"ok", "refused", "lost"}

forwardRestRetries(ch, end) == IF end = "ok" THEN Tail(ch) ELSE ch

\* Run's loop: the event received from sendCh has left the channel whatever
\* client.Copy returns.
forwardRest(ch, end) == Tail(ch)

\* Upstream.Run, one iteration of the forward loop: the next event is
\* received and client.Copy is called with it; an error is logged.
\* qh.copied is history: the requests of the calls and how they ended.
ForwardCopy(end) ==
    /\ run.st \in {"running", "cancelled"}
    /\ Len(sendCh) > 0
    /\ LET ev == Head(sendCh).ev
           req == [Source |-> ev.Source, Clipboard |-> ev.Clipboard, Items |-> ev.Items]
       IN  /\ IF end \in {"ok", "lost"}
              THEN serviceCopy(req, DownAddr, DownSource)
              ELSE UNCHANGED <<rLatest, rLatestSource, wire>>
           /\ qh' = [qh EXCEPT !.copied = Append(@, [req |-> req, end |-> end])]
    /\ sendCh' = forwardRest(sendCh, end)
    /\ cnt' = [cnt EXCEPT !.copies = @ + 1]
    /\ UNCHANGED <<peers, latest, latestSource, listener, th, inbox, used, gone, nops,
                   lastPub, filterVars, streams, wantFilters, cbFilters, lastLocal, run,
                   watchCh, localCh, lp, wh, loopVars>>

ForwardNext ==
    \/ QueuePublish
    \/ \E end \in CopyOutcomes : ForwardCopy(end)
    \/ CancelRun

\* The hub with its three peers registered and nothing published yet.
ForwardInit == QueueInit /\ qh.base = 0

\* The forward loop takes its next step whenever an event is queued.
ForwardSpec ==
    /\ ForwardInit
    /\ [][ForwardNext]_vars
    /\ WF_vars(\E end \in CopyOutcomes : ForwardCopy(end))

\* ------------------------------------- filter snapshot as a pure function

FilterObjs == {"pa", "pb", "pb2", "pc", "pd", "pe", "up"}

\* A hub holding any peer set, nothing published.
FilterInit ==
    /\ \E S \in SUBSET FilterObjs : peers \in PeerMaps(S)
    /\ latest = EmptyMap
    /\ latestSource = EmptyMap
    /\ listener = "nil"
    /\ th = [t \in Threads |-> Idle]
    /\ inbox = [p \in AllObjs |-> <<>>]
    /\ used = {peers[id] : id \in DOMAIN peers}
    /\ gone = {}
    /\ nops = 0
    /\ lastPub = [cb \in CanonClipboards |-> NoPub]
    /\ FilterIdle
    /\ FedIdle
    /\ PeerIdle

MaxFilterCalls == 2

\* h.clipboardFiltersLocked() on the current peer map.
ComputeFilters ==
    /\ Len(fcalls) < MaxFilterCalls
    /\ fout' \in clipboardFiltersLocked(peers)
    /\ fdone' = TRUE
    /\ fcalls' = Append(fcalls, [peers |-> peers, out |-> fout'])
    /\ UNCHANGED <<fedVars, peerVars>>
    /\ UNCHANGED <<peers, latest, latestSource, listener, th, inbox, used, gone, nops, lastPub>>

\* Register of the broadcast peer, no listener set: h.peers[p.ID()] = p.
RegisterBroadcast ==
    /\ ID("up") \notin DOMAIN peers
    /\ peers' = MapPut(peers, ID("up"), "up")
    /\ used' = used \cup {"up"}
    /\ UNCHANGED <<filterVars, peerVars, fedVars>>
    /\ UNCHANGED <<latest, latestSource, listener, th, inbox, gone, nops, lastPub>>

\* Unregister of the broadcast peer, no listener set: delete(h.peers, id).
UnregisterBroadcast ==
    /\ ID("up") \in DOMAIN peers
    /\ peers' = MapDelete(peers, ID("up"))
    /\ UNCHANGED <<filterVars, peerVars, fedVars>>
    /\ UNCHANGED <<latest, latestSource, listener, th, inbox, used, gone, nops, lastPub>>

FilterNext == ComputeFilters \/ RegisterBroadcast \/ UnregisterBroadcast

FilterSpec == FilterInit /\ [][FilterNext]_vars

\* ------------------------------------- filter snapshot under peer removal

\* Non-broadcast peers of both namespaces: one accepting all, the others
\* naming types.
RemovalObjs == {"pa", "pb", "pc", "pd"}

\* A hub holding any peer set over these objects, no listener set.
RemovalInit ==
    /\ \E S \in SUBSET RemovalObjs : peers \in PeerMaps(S)
    /\ latest = EmptyMap
    /\ latestSource = EmptyMap
    /\ listener = "nil"
    /\ th = [t \in Threads |-> Idle]
    /\ inbox = [p \in AllObjs |-> <<>>]
    /\ used = {peers[id] : id \in DOMAIN peers}
    /\ gone = {}
    /\ nops = 0
    /\ lastPub = [cb \in CanonClipboards |-> NoPub]
    /\ FilterIdle
    /\ FedIdle
    /\ PeerIdle

\* Unregister of any of the peer objects.
RemovePeer(t, p) == p \in RemovalObjs /\ hubUnregisterLock(t, p)

RemovalNext ==
    \/ \E t \in Threads, p \in RemovalObjs : RemovePeer(t, p)
    \/ \E t \in Threads : UnregisterNotify(t)
    \/ \E t \in Threads : Return(t)

RemovalSpec == RemovalInit /\ [][RemovalNext]_vars

\* ------------------------------------------------------- properties: hub

Frames == {th[t] : t \in Threads}

\* The peers a Publish has to deliver to, given the peers registered when it
\* held the lock.
ExpectedReceivers(ps, items, ns, origin) ==
    {ps[id] : id \in {i \in DOMAIN ps :
        /\ i # origin
        /\ IsBroadcast(ps[i]) \/ CanonNs(Info(ps[i]).Clipboard) = CanonNs(ns)
        /\ Accepted(items, Info(ps[i]).AcceptedTypes) # <<>>}}

\* C1: a Publish invokes Send on exactly the registered peers with id #
\* origin that are broadcast or subscribed to canon(ns) and for which the
\* filtered items are non-empty, once each; while it runs it has sent to no
\* other peer, and never to the peer whose id is the origin.
C1_PublishDelivery ==
    \A f \in Frames :
        f.op = "Publish" =>
            /\ f.sentTo \subseteq ExpectedReceivers(f.peersAt, f.items, f.name, f.origin)
            /\ \A p \in f.sentTo : ID(p) # f.origin
            /\ f.nsent = Cardinality(f.sentTo)
            /\ f.pc = "done" =>
                 f.sentTo = ExpectedReceivers(f.peersAt, f.items, f.name, f.origin)

\* A Publish has returned that delivered to some peer, skipped the registered
\* origin, and skipped another registered peer (namespace or filter).
C1_Witness ==
    \E f \in Frames :
        /\ f.op = "Publish" /\ f.pc = "done"
        /\ f.origin \in DOMAIN f.peersAt
        /\ f.sentTo # {}
        /\ \E id \in DOMAIN f.peersAt : id # f.origin /\ f.peersAt[id] \notin f.sentTo

LatestNames == {"", "default", "scratch"}

LatestAcceptLists == {<<>>, <<"text/plain">>, <<"text/html", "image/png">>}

\* C2: Latest(ns, accepts) returns the items of the most recent Publish on
\* canon(ns) filtered by accepts, with the source of that same publish (also
\* when the filter leaves no items), and empty items and source when nothing
\* was published on the namespace.
C2_LatestCoherence ==
    \A ns \in LatestNames, accepts \in LatestAcceptLists :
        LET last == lastPub[CanonNs(ns)]
        IN  /\ Latest(ns, accepts).items = Accepted(last.items, accepts)
            /\ Latest(ns, accepts).source = last.source
            /\ ~last.has => Latest(ns, accepts) = [items |-> <<>>, source |-> ""]

\* After a publish of an image on the default namespace, Latest filtered to
\* text returns no items and the publish's source; unfiltered it returns the
\* image; the other namespace is still empty.
C2_Witness ==
    /\ lastPub["default"].has
    /\ ~lastPub["scratch"].has
    /\ Latest("", <<"text/plain">>).items = <<>>
    /\ Latest("", <<"text/plain">>).source # ""
    /\ Latest("default", <<>>).items = <<PngImg>>

ReplaysTo(p) == SelectSeq(inbox[p], LAMBDA m : m.kind = "replay")

\* C3: when Register(p) of a non-broadcast peer has returned, p got from it
\* exactly one replay event with the filtered items, the canonical namespace
\* and the source of the last Publish on p's namespace, if that publish
\* exists and its filtered items are non-empty, and no replay otherwise.
C3_FreshnessReplay ==
    \A f \in Frames :
        (f.op = "Register" /\ f.pc = "done" /\ ~IsBroadcast(f.p)) =>
            LET info == Info(f.p)
                want == Accepted(f.seen.items, info.AcceptedTypes)
            IN  IF f.seen.has /\ want # <<>>
                THEN /\ f.nsent = 1
                     /\ Len(ReplaysTo(f.p)) = 1
                     /\ ReplaysTo(f.p)[1].ev =
                          Event(f.seen.source, CanonNs(info.Clipboard), want)
                ELSE /\ f.nsent = 0
                     /\ Len(ReplaysTo(f.p)) = 0

\* Register of the text-only peer has returned after a publish of an image
\* and a text: the peer holds one replay, with the text alone.
C3_Witness ==
    \E f \in Frames :
        /\ f.op = "Register" /\ f.pc = "done" /\ f.p = "pb"
        /\ f.seen.items = <<PngImg, TextYo>>
        /\ Len(ReplaysTo("pb")) = 1
        /\ ReplaysTo("pb")[1].ev.Items = <<TextYo>>

\* C4: the freshness replay is the first event delivered to a registering
\* peer: no event of a Publish reaches it before the replay.
C4_ReplayFirst ==
    \A p \in HubObjs :
        \A i \in 1..Len(inbox[p]) : inbox[p][i].kind = "replay" => i = 1

\* The snapshot of a peer set, as the set of its entries with each accept
\* list as a set (the empty set: all types).
ExpectedFilterSet(ps) ==
    LET locals == {ps[id] : id \in {i \in DOMAIN ps : ~IsBroadcast(ps[i])}}
        on(ns) == {p \in locals : CanonNs(Info(p).Clipboard) = ns}
    IN  {[Clipboard |-> ns,
          Accepts |-> IF \E p \in on(ns) : Info(p).AcceptedTypes = <<>>
                      THEN {}
                      ELSE UNION {Range(Info(p).AcceptedTypes) : p \in on(ns)}] :
            ns \in {CanonNs(Info(p).Clipboard) : p \in locals}}

SnapshotSet(filters) ==
    {[Clipboard |-> filters[i].Clipboard, Accepts |-> Range(filters[i].Accepts)] :
        i \in 1..Len(filters)}

\* C8: every Register and every Unregister calls the listener exactly once,
\* with the filter snapshot of the peer set as it is right after the change.
C8_ListenerNotified ==
    \A f \in Frames :
        f.op \in {"Register", "Unregister"} =>
            /\ f.pc \in {"reg_notify", "unreg_notify"} => f.ncb = 0
            /\ f.pc \in {"reg_send", "done"} =>
                 /\ f.ncb = 1
                 /\ SnapshotSet(f.cbArg) = ExpectedFilterSet(f.peersAt)
                 /\ Len(f.cbArg) = Cardinality(ExpectedFilterSet(f.peersAt))

\* An Unregister and a Register have each returned after one callback; the
\* Unregister left a peer set whose snapshot is not empty.
C8_Witness ==
    /\ \E f \in Frames : f.op = "Unregister" /\ f.pc = "done" /\ f.ncb = 1 /\ Len(f.cbArg) > 0
    /\ \E f \in Frames : f.op = "Register" /\ f.pc = "done" /\ f.ncb = 1

\* ------------------------------------------- properties: filter snapshot

\* C9: the snapshot holds exactly one entry for each canonical namespace
\* with a registered non-broadcast peer and no other; an entry's accept list
\* is empty if a peer of the namespace accepts all, and else the
\* duplicate-free union of the accepted types of the namespace's peers.
C9_SnapshotComposition ==
    fdone =>
        /\ SnapshotSet(fout) = ExpectedFilterSet(peers)
        /\ Len(fout) = Cardinality(ExpectedFilterSet(peers))
        /\ \A i \in 1..Len(fout) :
             /\ Len(fout[i].Accepts) = Cardinality(Range(fout[i].Accepts))
             /\ fout[i].Clipboard # ""

\* A snapshot of two namespaces, computed with the broadcast peer registered:
\* "default" accepts all because of one accept-all peer beside one that
\* names two types, "scratch" holds the union of two peers' lists, one with a repeated type.
C9_Witness ==
    /\ fdone
    /\ {"pa", "pc", "pb2", "pd", "up"} \subseteq {peers[id] : id \in DOMAIN peers}
    /\ "pe" \notin {peers[id] : id \in DOMAIN peers}
    /\ SnapshotSet(fout) = {[Clipboard |-> "default", Accepts |-> {}],
                            [Clipboard |-> "scratch", Accepts |-> {"image/png", "text/html"}]}

\* ------------------------------------------------ properties: federation

\* One downstream broker federated with one upstream broker, the only
\* publisher being a local client of the downstream; the Watch streams may
\* fail and reconnect.
EchoNext ==
    \/ \E items \in PubItems, cn \in PubClipboards : FedLocalPublish(items, cn)
    \/ Forward
    \/ \E cb \in CanonClipboards : StreamConnect(cb)
    \/ \E cb \in CanonClipboards : StreamRecv(cb)
    \/ \E cb \in CanonClipboards : StreamError(cb)

\* The goroutines of the forward loop and of each stream loop keep running.
EchoSpec ==
    /\ FedInit
    /\ [][EchoNext]_vars
    /\ WF_vars(Forward)
    /\ \A cb \in CanonClipboards : WF_vars(StreamConnect(cb)) /\ WF_vars(StreamRecv(cb))

\* The peers registered when the last Publish into the local hub ran.
LastLocalPeers == {lastLocal.peersAt[id] : id \in DOMAIN lastLocal.peersAt}

\* C5: a Publish into the local hub with origin 'federation/upstream' does
\* not invoke the upstream peer's Send: nothing is enqueued on sendCh for it,
\* sendCh never holds an event of that origin, so no Copy is issued for it;
\* every other matching local peer receives it.
C5_UpstreamOriginNotForwarded ==
    /\ \A i \in 1..Len(sendCh) : sendCh[i].origin # upstreamOriginID
    /\ cnt.copies + Len(sendCh) <= cnt.local
    /\ (lastLocal.has /\ lastLocal.origin = upstreamOriginID) =>
         /\ "up" \notin lastLocal.sentTo
         /\ ~lastLocal.enq
         /\ lastLocal.sentTo =
              {p \in LastLocalPeers \ {"up"} :
                  /\ CanonNs(Info(p).Clipboard) = CanonNs(lastLocal.name)
                  /\ Accepted(lastLocal.items, Info(p).AcceptedTypes) # <<>>}

C5_Witness ==
    /\ lastLocal.has
    /\ lastLocal.origin = upstreamOriginID
    /\ "up" \in LastLocalPeers
    /\ lastLocal.sentTo # {}
    /\ sendCh = <<>>
    /\ cnt.copies = 0

Quiescent == sendCh = <<>> /\ \A cb \in CanonClipboards : wire[cb] = <<>>

\* C6: with one downstream and one upstream broker, every local Publish
\* causes at most one Copy to the upstream (the echo on the Watch stream causes
\* none), and the system comes to rest with no event in flight.
C6_NoEchoLoop ==
    /\ [](cnt.copies + Len(sendCh) <= cnt.local)
    /\ <>[]Quiescent

\* The echo of the one local Publish came back and was published locally.
C6_Witness ==
    /\ cnt.local = 1
    /\ cnt.remote = 0
    /\ cnt.copies = 1
    /\ lastLocal.has
    /\ lastLocal.origin = upstreamOriginID
    /\ lastLocal.source = DownSource
    /\ Quiescent

\* C7: a stream never publishes the same items into the local hub twice in
\* a row, reconnects included.
C7_NoRepeatedPublish == \A cb \in DOMAIN streams : ~streams[cb].repeated

SortedSnapshot(filters) ==
    /\ \A i \in 1..Len(filters) - 1 : StrLess(filters[i].Clipboard, filters[i + 1].Clipboard)
    /\ \A i \in 1..Len(filters) : IsSortedStrings(filters[i].Accepts)

NonBroadcast(ps) == {<<id, ps[id]>> : id \in {i \in DOMAIN ps : ~IsBroadcast(ps[i])}}

\* Two calls whose peer maps differ in the broadcast peer only.
BroadcastApart(i, j) ==
    /\ NonBroadcast(fcalls[i].peers) = NonBroadcast(fcalls[j].peers)
    /\ fcalls[i].peers # fcalls[j].peers

SnapshotAccepts(filters, cb) ==
    UNION {Range(filters[i].Accepts) : i \in {k \in 1..Len(filters) : filters[k].Clipboard = cb}}

SnapshotNamespaces(filters) == {filters[i].Clipboard : i \in 1..Len(filters)}

\* What an OnPeerChange call (the step that counts it) has to do, namespace
\* by namespace.
Reconciled ==
    /\ DOMAIN streams' = SnapshotNamespaces(cbFilters')
    /\ \A cb \in DOMAIN streams' :
         /\ Range(streams'[cb].accepts) = SnapshotAccepts(cbFilters', cb)
         /\ IsSortedStrings(streams'[cb].accepts)
         /\ Len(streams'[cb].accepts) = Cardinality(Range(streams'[cb].accepts))
         /\ IF cb \in DOMAIN streams /\ Range(streams[cb].accepts) = SnapshotAccepts(cbFilters', cb)
            THEN streams'[cb] = streams[cb] /\ wire'[cb] = wire[cb]
            ELSE /\ streams'[cb].gen = cnt'.reg
                 /\ streams'[cb].st = "connecting"
                 /\ streams'[cb].lastItems = <<>>
                 /\ wire'[cb] = <<>>
    /\ \A cb \in DOMAIN streams \ DOMAIN streams' :
         /\ wire'[cb] = <<>>
         /\ cb \notin DOMAIN wantFilters'

\* C13: every OnPeerChange call leaves one stream per namespace of its
\* snapshot, opened with the sorted accepts of that entry; a namespace whose
\* accepts did not change keeps its stream as it is, one whose accepts changed
\* gets a new stream in place of the cancelled one, one that left the snapshot
\* has its stream cancelled and removed.
C13_StreamsReconciled == [][cnt'.reg = cnt.reg + 1 => Reconciled]_vars

\* After one call, an open stream that call kept, started before it.
C13_Witness ==
    /\ cnt.reg = 1
    /\ \E cb \in DOMAIN streams : streams[cb].gen = 0 /\ streams[cb].st = "open"

\* ----------------------------------------------- properties: shutdown

EventNumbers(evs) == [i \in 1..Len(evs) |-> evs[i].Items[1].Data]

StrictlyIncreasing(ns) == \A i, j \in 1..Len(ns) : i < j => ns[i] < ns[j]

\* What the Watch subscriber has been handed so far, then what still waits.
WatchArrivals == EventNumbers(qh.got \o watchCh)

UpstreamQueued == EventNumbers([i \in 1..Len(sendCh) |-> sendCh[i].ev])

LocalQueued == EventNumbers(localCh)

\* C15: per-peer FIFO.  The publisher's publishes are numbered in the order
\* it made them; every publish that was not dropped for fullness reaches the
\* Watch subscriber, and the subscriber's stream yields them in publish
\* order; the queues of the upstream and of the local clipboard peer hold
\* their events in publish order too.
C15_PerPeerFIFO ==
    /\ StrictlyIncreasing(WatchArrivals)
    /\ Range(WatchArrivals) = (1..qh.n) \ qh.dropped["pc"]
    /\ StrictlyIncreasing(UpstreamQueued)
    /\ Range(UpstreamQueued) \subseteq (1..qh.n) \ qh.dropped["up"]
    /\ StrictlyIncreasing(LocalQueued)
    /\ Range(LocalQueued) \subseteq (1..qh.n) \ qh.dropped["lp"]

\* C15 witness: two publishes made one after the other during the run were
\* both queued and both handed to the Watch stream.
C15_Witness ==
    \E i, j \in 1..Len(qh.got) :
        /\ i < j
        /\ qh.base < qh.got[i].Items[1].Data
        /\ qh.got[i].Items[1].Data < qh.got[j].Items[1].Data

\* The events a queue of the given capacity holds after a Send of ev.
AfterSend(ch, cap, ev) == IF Len(ch) < cap THEN Append(ch, ev) ELSE ch

\* The event of the publish numbered n, as a peer without a type filter of
\* its own gets it.
QueueEvent(n) == Event(QueuePublisher[2], "default", QueueItems(n))

\* C16: drop-on-full.  No queue ever exceeds its capacity; a publish appends
\* its event to every queue that has room and leaves a full queue exactly as
\* it was, that one event being lost to that peer; a dropped event never
\* shows up later (no retry); the peers stay registered; and the publish is
\* never held up, whatever the consumers have or have not taken.
C16_DropOnFull ==
    /\ [](/\ Len(watchCh) <= watchChCap
          /\ Len(sendCh) <= sendChCap
          /\ Len(localCh) <= localSendChCap
          /\ Range(WatchArrivals) \cap qh.dropped["pc"] = {}
          /\ Range(UpstreamQueued) \cap qh.dropped["up"] = {}
          /\ Range(LocalQueued) \cap qh.dropped["lp"] = {}
          /\ {peers[id] : id \in DOMAIN peers} = QueueObjs
          /\ (qh.n < qh.base + MaxQueuePubs => ENABLED QueuePublish))
    /\ [][qh'.n = qh.n + 1 =>
            /\ watchCh' = AfterSend(watchCh, watchChCap, QueueEvent(qh'.n))
            /\ sendCh' = AfterSend(sendCh, sendChCap,
                                   [ev |-> QueueEvent(qh'.n), origin |-> QueuePublisher[1]])
            /\ localCh' = AfterSend(localCh, localSendChCap, QueueEvent(qh'.n))
            /\ peers' = peers]_vars

\* C16 witness: each of the three queues was full when an event came, lost
\* that event, and took a later one after its consumer had made room.
C16_Witness ==
    /\ \E d \in qh.dropped["pc"] : \E i \in 1..Len(watchCh) : watchCh[i].Items[1].Data > d
    /\ qh.base = 63
    /\ \E d \in qh.dropped["up"] : \E i \in 1..Len(sendCh) : sendCh[i].ev.Items[1].Data > d
    /\ \E d \in qh.dropped["lp"] : \E i \in 1..Len(localCh) : localCh[i].Items[1].Data > d

\* ------------------------------------- properties: latest items and source

\* The pair a reader holding h.mu finds for a namespace.
StoredPair(cb) == <<MapGet(latest, cb, <<>>), MapGet(latestSource, cb, "")>>

\* The pair of the last Publish on a namespace, or the empty pair.
PublishedPair(pub) == <<pub.items, pub.source>>

\* C17: whatever the goroutines are in the middle of, the stored items and
\* the stored source of every namespace are those of one Publish, the last
\* one on the namespace, so that is the pair a Latest call gets; and the
\* pair a Register took for its replay is the pair of the one Publish that
\* was the last when Register held the lock, also after later publishes.
C17_PairFromOnePublish ==
    /\ \A cb \in CanonClipboards : StoredPair(cb) = PublishedPair(lastPub[cb])
    /\ \A ns \in LatestNames :
         <<Latest(ns, <<>>).items, Latest(ns, <<>>).source>> = PublishedPair(lastPub[CanonNs(ns)])
    /\ \A f \in Frames : f.op = "Register" => <<f.latest, f.src>> = PublishedPair(f.seen)

\* C17 witness: a Register still running holds the pair of one Publish for
\* its replay while a Publish of other items under another source has since
\* replaced the stored pair and is itself still delivering.
C17_Witness ==
    \E f, g \in Frames :
        /\ f.op = "Register" /\ f.pc \in {"reg_notify", "reg_send"}
        /\ f.seen.has
        /\ g.op = "Publish" /\ g.pc = "pub_send" /\ g.cb = f.cb
        /\ g.items # f.latest /\ g.source # f.src
        /\ StoredPair(f.cb) = <<g.items, g.source>>

\* ------------------------------------------ properties: local clipboard peer

\* C18: the watcher loop never publishes, with the clipboard last set by the
\* writer loop, the very items of an inbound event the writer loop applied.
C18_NoEchoOfInbound ==
    \A i \in 1..Len(lp.published) :
        ~(/\ lp.published[i].by = "writer"
          /\ lp.published[i].items \in Range(lp.published[i].written))

\* ------------------------------ properties: absent ids and re-registration

\* An Unregister call whose peer's id was not registered when it held the lock.
AbsentUnregister(f) == f.op = "Unregister" /\ ID(f.p) \notin DOMAIN f.prev

\* C19: an Unregister of an id that is not registered leaves the peer map as
\* it was and issues no peer-change notification.
C19_AbsentUnregisterNoOp ==
    \A f \in Frames :
        AbsentUnregister(f) => f.peersAt = f.prev /\ f.ncb = 0

\* The part of C19 about the hub's state: the step of such an Unregister
\* changes neither the peer map nor the latest items nor the latest sources.
AbsentUnregisterKeepsState ==
    [][\A t \in Threads :
          (th[t].op # "Unregister" /\ AbsentUnregister(th'[t])) =>
              /\ peers' = peers
              /\ latest' = latest
              /\ latestSource' = latestSource]_vars

\* A Register call whose peer's id was registered, for another peer object,
\* when it held the lock.
DuplicateRegister(f) ==
    f.op = "Register" /\ ID(f.p) \in DOMAIN f.prev /\ f.prev[ID(f.p)] # f.p

\* C20: Register under an id that is registered replaces the prior peer: the
\* peer map keeps its ids, holds the new peer under that id and every other
\* peer as before; every listing of Peers() has one entry per id, the new
\* peer's once and the old peer's not at all; the filter snapshot handed on
\* is that of the map with the new peer; and a Publish delivers only to
\* peers that were in the map when it held the lock, so never to a replaced
\* one.
C20_DuplicateReplaces ==
    /\ \A f \in Frames :
         DuplicateRegister(f) =>
            LET id == ID(f.p)
                old == f.prev[id]
            IN  /\ DOMAIN f.peersAt = DOMAIN f.prev
                /\ f.peersAt[id] = f.p
                /\ \A other \in DOMAIN f.prev \ {id} : f.peersAt[other] = f.prev[other]
                /\ \A l \in hubPeers(f.peersAt) :
                     /\ Len(l) = Cardinality(DOMAIN f.prev)
                     /\ Cardinality({i \in 1..Len(l) : l[i] = Info(f.p)}) = 1
                     /\ \A i \in 1..Len(l) : l[i] # Info(old)
                /\ SnapshotSet(f.filters) = ExpectedFilterSet(f.peersAt)
    /\ \A f \in Frames :
         f.op = "Publish" =>
            \A p \in f.sentTo \cup f.targets :
                ID(p) \in DOMAIN f.peersAt /\ f.peersAt[ID(p)] = p

\* C20 witness: Register of "pb2" has replaced "pb" under the id "b", and a
\* Publish that took the lock afterwards has delivered to "pb2" and has no
\* delivery left to make.
C20_Witness ==
    \E f, g \in Frames :
        /\ DuplicateRegister(f) /\ f.p = "pb2" /\ f.prev["b"] = "pb" /\ f.pc = "done"
        /\ g.op = "Publish" /\ g.pc = "done"
        /\ g.peersAt = f.peersAt
        /\ "pb2" \in g.sentTo
        /\ "pb" \notin g.sentTo
        /\ Len(inbox["pb"]) = 0

\* ------------------------------------------ properties: canonical namespaces

\* The namespaces of the events the peer objects were sent.
DeliveredNamespaces ==
    UNION {{inbox[p][i].ev.Clipboard : i \in 1..Len(inbox[p])} : p \in AllObjs}

\* The namespaces of the snapshot entries the calls in progress computed or
\* handed to the listener.
SnapshotEntryNamespaces ==
    UNION {{f.filters[i].Clipboard : i \in 1..Len(f.filters)} \cup
           {f.cbArg[i].Clipboard : i \in 1..Len(f.cbArg)} : f \in Frames}

\* C21: the empty namespace is canonicalised to "default" at every hub
\* boundary.  The empty string is no key of the latest maps, no namespace of
\* a snapshot entry, no namespace of a delivered event and no namespace a
\* Register or a Publish works under; a Publish with "" stores and targets
\* what a Publish with "default" does, Latest with "" returns what Latest
\* with "default" returns, and a registered peer whose namespace is "" is a
\* target of the publishes on "default".
C21_CanonicalNamespaces ==
    /\ "" \notin DOMAIN latest \cup DOMAIN latestSource
    /\ "" \notin SnapshotEntryNamespaces
    /\ "" \notin DeliveredNamespaces
    /\ \A f \in Frames : f.op \in {"Register", "Publish"} => f.cb = CanonNs(f.cb) /\ f.cb # ""
    /\ \A f \in Frames : f.op = "Publish" => f.cb = CanonNs(f.name)
    /\ \A f \in Frames : f.op = "Register" => f.cb = CanonNs(Info(f.p).Clipboard)
    /\ \A f \in Frames : f.op = "Publish" => (f.cb = "default" <=> f.name \in {"", "default"})
    /\ \A items \in PubItems, by \in Publishers :
         LET m == [latest |-> latest, latestSource |-> latestSource]
         IN  /\ publishStore(m, canonicalize(""), items, by[2]) =
                  publishStore(m, canonicalize("default"), items, by[2])
             /\ publishTargets(peers, canonicalize(""), by[1]) =
                  publishTargets(peers, canonicalize("default"), by[1])
    /\ \A accepts \in LatestAcceptLists : Latest("", accepts) = Latest("default", accepts)
    /\ \A id \in DOMAIN peers :
         Info(peers[id]).Clipboard = "" =>
            peers[id] \in publishTargets(peers, "default", "nobody")

\* C21 witness: a Publish called with "" has stored its items under
\* "default" and delivered them on "default" to the peer registered with
\* the namespace "default"; the peer whose namespace is "" is registering
\* and has got them as a replay on "default".
C21_Witness ==
    \E f, g \in Frames :
        /\ f.op = "Register" /\ f.p = "pa" /\ f.pc = "done"
        /\ Info("pa").Clipboard = ""
        /\ g.op = "Publish" /\ g.name = "" /\ g.pc = "done" /\ "pb" \in g.sentTo
        /\ DOMAIN latest = {"default"}
        /\ Len(inbox["pa"]) > 0
        /\ inbox["pa"][1].ev.Clipboard = "default"
        /\ inbox["pb"][1].ev.Clipboard = "default"

\* ------------------------------------------- properties: the Watch handler

\* C22: when the Watch call has returned, whatever ended it, its subscriber
\* peer is out of the hub: not in the peer map, in no listing of Peers(), no
\* target of a publish on any namespace, sent nothing by the publishes made
\* since, and without a share in the snapshot the listener was handed or in
\* any later one; and a call that has left its loop does return.
C22_WatchEndUnregisters ==
    /\ [](wh.st = "returned" =>
            LET others == [id \in DOMAIN peers \ {ID(WatchSubscriber)} |-> peers[id]]
            IN  /\ WatchSubscriber \notin {peers[id] : id \in DOMAIN peers}
                /\ \A l \in hubPeers(peers) : Info(WatchSubscriber) \notin Range(l)
                /\ \A cb \in CanonClipboards :
                     WatchSubscriber \notin publishTargets(peers, cb, "nobody")
                /\ wh.sentAfter = 0
                /\ SnapshotSet(wh.cbArg) = ExpectedFilterSet(others)
                /\ \A filters \in clipboardFiltersLocked(peers) :
                     SnapshotSet(filters) = ExpectedFilterSet(others))
    /\ (wh.st = "ending" ~> wh.st = "returned")

\* C22 witness: the call wrote a frame, then a send failed and it returned,
\* and a client has published on the subscriber's namespace since.
C22_Witness ==
    /\ wh.st = "returned"
    /\ wh.why = "send"
    /\ Len(wh.frames) > 0
    /\ wh.pubsAfter > 0
    /\ "default" \in DOMAIN latest

\* The MIME types of a list of items, in order.
RECURSIVE MimeTypes(_)
MimeTypes(items) ==
    IF items = <<>> THEN <<>> ELSE <<Head(items).Mime>> \o MimeTypes(Tail(items))

\* C23: the i-th frame written is made from the i-th event taken from the
\* queue: it has the event's source and namespace and the MIME types of the
\* event's items in order, and it has the event's items when the request's
\* metadata_only is false and no item when it is true.
C23_FrameContents ==
    /\ Len(wh.frames) = Len(wh.taken)
    /\ \A i \in 1..Len(wh.frames) :
         LET fr == wh.frames[i]
             ev == wh.taken[i]
         IN  /\ fr.Source = ev.Source
             /\ fr.Clipboard = ev.Clipboard
             /\ fr.AvailableTypes = MimeTypes(ev.Items)
             /\ ev.Items # <<>>
             /\ fr.Items # <<>> <=> ~wh.metadataOnly
             /\ ~wh.metadataOnly => fr.Items = ev.Items

\* C23 witness: a metadata-only subscription was written a frame for an
\* event of two items: both types, in order, and no payload.
C23_Witness ==
    /\ wh.metadataOnly
    /\ \E i \in 1..Len(wh.frames) :
         /\ wh.taken[i].Items = <<PngImg, TextYo>>
         /\ wh.frames[i].AvailableTypes = <<"image/png", "text/plain">>
         /\ wh.frames[i].Items = <<>>
         /\ wh.frames[i].Source = QueuePublisher[2]

\* The stream loops whose Watch stream is open.
OpenLoops == {l \in DOMAIN loops.live : loops.live[l].pc = "open"}

\* C24: while the upstream runs and no reconciliation is in progress, the
\* connected_at the upstream reports is absent when no stream loop has its
\* stream open, and is otherwise the earliest of the times at which the loops
\* with an open stream opened it.
C24_ConnectedAtOfOpenStreams ==
    streamsMu.holder = "none" /\ run.st = "running" =>
        LET times == {loops.live[l].at : l \in OpenLoops}
        IN  IF OpenLoops = {}
            THEN infoConnectedAt = 0
            ELSE infoConnectedAt \in times /\ \A t \in times : infoConnectedAt <= t

\* C26: no two stream loops that have not returned are for the same
\* namespace, and each of them is the loop of the handle the streams map has
\* for its namespace.
C26_OneLoopPerNamespace ==
    /\ \A l \in DOMAIN loops.live, k \in DOMAIN loops.live :
         loops.live[l].cb = loops.live[k].cb => l = k
    /\ \A l \in DOMAIN loops.live :
         /\ loops.live[l].cb \in DOMAIN streams
         /\ streams[loops.live[l].cb] = l

\* C26 witness: the second loop started is the only one left and is for the
\* default namespace, whose connect time is still that of the first loop:
\* the first loop had its stream open for the same namespace, was cancelled
\* by OnPeerChange and awaited, and the second replaced it.
C26_Witness ==
    /\ streamsMu.holder = "none"
    /\ loops.started = 2
    /\ DOMAIN loops.live = {2}
    /\ loops.live[2].cb = "default"
    /\ loops.live[2].pc = "dial"
    /\ "default" \in DOMAIN connectedAt

\* C27: whenever a stream loop waits before its next attempt, the delay it
\* waits is at least the initial delay and at most the ceiling.
C27_DelayWithinCeiling ==
    \A l \in DOMAIN loops.live :
        loops.live[l].pc = "backoff" =>
            /\ reconnectDelay <= loops.live[l].delay
            /\ loops.live[l].delay <= maxReconnect

\* C28: whenever a stream loop waits after an attempt that had opened its
\* stream, the delay it waits is the initial delay.
C28_DelayResetByOpen ==
    \A l \in DOMAIN loops.live :
        loops.live[l].pc = "backoff" /\ loops.live[l].afterOpen =>
            loops.live[l].delay = reconnectDelay

\* What Hub.Publish(items, canon(ns), the caller's address, source) does to
\* the latest items and source and to the peers' queues.
CopyAsPublish(items, ns) ==
    LET to == ExpectedReceivers(peers, items, ns, QueuePublisher[1])
        ev(p) == Event(QueuePublisher[2], CanonNs(ns), Accepted(items, Info(p).AcceptedTypes))
    IN  /\ latest' = [cb \in DOMAIN latest \cup {CanonNs(ns)} |->
                          IF cb = CanonNs(ns) THEN items ELSE latest[cb]]
        /\ latestSource' = [cb \in DOMAIN latestSource \cup {CanonNs(ns)} |->
                                IF cb = CanonNs(ns) THEN QueuePublisher[2] ELSE latestSource[cb]]
        /\ watchCh' = IF WatchSubscriber \in to
                      THEN AfterSend(watchCh, watchChCap, ev(WatchSubscriber))
                      ELSE watchCh
        /\ UNCHANGED <<sendCh, localCh, inbox>>

\* C25: every Copy request, whatever its items, leaves the latest items and
\* source and the peers' queues as Hub.Publish of its items on the
\* canonical namespace from the caller's address does.
C25_CopyIsPublish ==
    [][\A items \in WatchPubItems, ns \in PubClipboards :
          WatchPublish(items, ns) => CopyAsPublish(items, ns)]_vars

\* C25, amended: a Copy request with at least one item leaves the latest
\* items and source and the peers' queues as Hub.Publish does; a Copy
\* request without items changes none of them.
C25_CopyIsPublishUnlessEmpty ==
    [][\A items \in WatchPubItems, ns \in PubClipboards :
          WatchPublish(items, ns) =>
              IF items # <<>>
              THEN CopyAsPublish(items, ns)
              ELSE UNCHANGED <<latest, latestSource, watchCh, sendCh, localCh, inbox>>]_vars

\* C25 witness: a Copy without items was made on a hub whose latest items of
\* the default namespace an earlier Copy had stored and delivered to the
\* Watch subscriber, and they are still the latest.
C25_Witness ==
    /\ wh.lastCopy = <<>>
    /\ wh.pubs = 2
    /\ "default" \in DOMAIN latest
    /\ latest["default"] = <<PngImg, TextYo>>
    /\ latestSource["default"] = QueuePublisher[2]
    /\ Len(wh.taken) = 1

\* The numbers of the events client.Copy was called with, in call order.
CopiedNumbers == [i \in 1..Len(qh.copied) |-> qh.copied[i].req.Items[1].Data]

\* C29: the Copy calls made so far, followed by the events still queued, are
\* the publishes the send channel accepted, each once and in publish order,
\* whether the calls failed or not; each call carried the source, the
\* namespace and the items of its event; and every accepted event is
\* forwarded at last, unless the upstream stops running.
C29_ForwardedOnceInOrder ==
    /\ [](/\ StrictlyIncreasing(CopiedNumbers \o UpstreamQueued)
          /\ Range(CopiedNumbers \o UpstreamQueued) = (1..qh.n) \ qh.dropped["up"]
          /\ \A i \in 1..Len(qh.copied) :
               qh.copied[i].req = [Source |-> QueuePublisher[2], Clipboard |-> "default",
                                   Items |-> QueueItems(CopiedNumbers[i])])
    /\ \A n \in 1..MaxQueuePubs :
         (n <= qh.n /\ n \notin qh.dropped["up"])
             ~> (n \in Range(CopiedNumbers) \/ run.st # "running")

\* C29 witness: the Copy of the first event failed, and the loop went on to
\* forward the second, which the remote broker has published.
C29_Witness ==
    /\ run.st = "running"
    /\ Len(qh.copied) = 2
    /\ qh.copied[1].end = "refused"
    /\ qh.copied[2].end = "ok"
    /\ CopiedNumbers = <<1, 2>>
    /\ "default" \in DOMAIN rLatest
    /\ rLatest["default"] = QueueItems(2)

\* The writer is about to call backend.Write with items the Linux backend
\* refuses: one of them is neither text nor a PNG image.
WriteFails ==
    /\ lp.w.pc = "write"
    /\ \E i \in 1..Len(lp.w.ev.Items) : lp.w.ev.Items[i].Mime \notin {"text/plain", "image/png"}

\* The item lists backend.Write has been called with so far.
WrittenBefore == {lp.written[i] : i \in 1..Len(lp.written)}

\* C30: a backend.Write that fails leaves lastItems and lastSeen as they
\* were and the local peer registered, with its writer back at the receive
\* of the next event; and an event with items whose write failed before is
\* not skipped when the writer receives it: backend.Write is called with it
\* again.
C30_FailedWriteKeepsPeer ==
    /\ [][WriterWrite /\ WriteFails =>
            /\ lp'.lastItems = lp.lastItems
            /\ lp'.lastSeen = lp.lastSeen
            /\ lp'.w = [pc |-> "recv"]
            /\ lp'.written = Append(lp.written, lp.w.ev.Items)
            /\ ID("lp") \in DOMAIN peers' /\ peers'[ID("lp")] = "lp"]_vars
    /\ [][(/\ WriterRecv
           /\ Head(localCh).Items \in WrittenBefore
           /\ \E i \in 1..Len(Head(localCh).Items) :
                Head(localCh).Items[i].Mime \notin {"text/plain", "image/png"})
          => lp'.w = [pc |-> "write", ev |-> Head(localCh)]]_vars

\* C30 witness: backend.Write was called twice with the same items and
\* failed both times, then once with the items of a later event; lastItems
\* and lastSeen are those of that one successful write, and the local peer
\* is registered.
C30_Witness ==
    /\ lp.written = <<<<TextHi, HtmlDoc>>, <<TextHi, HtmlDoc>>, <<PngImg, TextYo>>>>
    /\ lp.w.pc = "recv"
    /\ lp.lastItems = <<PngImg, TextYo>>
    /\ lp.lastSeen = 1
    /\ ID("lp") \in DOMAIN peers

\* ------------------------------------ properties: snapshot under removal

\* The types an accept list stands for: the empty list stands for every
\* type, also those no peer names.
AnyOtherType == "*/*"

TypeSet(accepts) ==
    IF Len(accepts) = 0
    THEN {"text/plain", "text/html", "image/png", AnyOtherType}
    ELSE Range(accepts)

\* Every entry of the snapshot after has an entry of the same namespace in
\* the snapshot before, and accepts no type that entry did not accept.
NotWidened(before, after) ==
    \A j \in 1..Len(after) :
        \E i \in 1..Len(before) :
            /\ before[i].Clipboard = after[j].Clipboard
            /\ TypeSet(after[j].Accepts) \subseteq TypeSet(before[i].Accepts)

\* C31: the snapshot an Unregister of a non-broadcast peer computes has, against
\* every snapshot of the peer set before the removal, no new namespace and
\* for each remaining namespace the same or a smaller set of accepted types.
C31_RemovalMonotonic ==
    \A f \in Frames :
        (f.op = "Unregister" /\ ~IsBroadcast(f.p)) =>
            \A before \in clipboardFiltersLocked(f.prev) : NotWidened(before, f.filters)

\* C31 witnesses: a removal took the accept-all peer of a namespace away and
\* left a peer naming types there (the set shrank); another removal took
\* the last peer of a namespace (the entry disappeared).
C31_Witness ==
    /\ \E f \in Frames :
         /\ f.op = "Unregister" /\ f.p = "pa" /\ ID("pa") \in DOMAIN f.prev
         /\ \E i \in 1..Len(f.filters) :
              f.filters[i].Clipboard = "default" /\ Len(f.filters[i].Accepts) > 0
    /\ \E f \in Frames :
         /\ f.op = "Unregister" /\ ~IsBroadcast(f.p) /\ ID(f.p) \in DOMAIN f.prev
         /\ \E before \in clipboardFiltersLocked(f.prev) : Len(f.filters) < Len(before)

\* ---------------------------------- properties: concurrent publishers

\* C32: when the Publish calls in flight on one namespace have all finished
\* their delivery, the last event sent to every accept-all peer that all
\* of them delivered to carries the items Latest reports for that namespace.
C32_ConcurrentPublishConverge ==
    \A cb \in CanonClipboards :
        LET pubs == {f \in Frames : f.op = "Publish" /\ f.cb = cb}
        IN  (pubs # {} /\ \A f \in pubs : f.pc = "done") =>
                \A p \in HubObjs :
                    (Len(Info(p).AcceptedTypes) = 0 /\ \A f \in pubs : p \in f.sentTo) =>
                        inbox[p][Len(inbox[p])].ev.Items = Latest(cb, <<>>).items

\* ------------------------------------------- properties: the service

\* The Watch streams that are open: registered and not yet ended.
OpenWatches == (ServiceObjs \cap used) \ gone

\* C33: every open Watch stream's watchPeer is the hub's entry under its id;
\* the start or the end of another Watch stream neither replaces nor
\* removes it.
C33_OpenWatchStaysRegistered ==
    \A w \in OpenWatches : ID(w) \in DOMAIN peers /\ peers[ID(w)] = w

\* C39: no Publish made by Copy from a transport address delivers to a
\* watchPeer of a Watch stream from that same address.
C39_CopyNotEchoedToSameAddress ==
    \A f \in Frames :
        f.op = "Publish" => \A p \in f.sentTo : <<ID(p)[1]>> # f.origin

\* ------------------------------- properties: the listener and the peer set

\* Every Register and Unregister call has returned.
AllReturned == \A f \in Frames : f.pc \in {"idle", "done"}

\* C34: when the concurrent Register and Unregister calls have all returned,
\* the snapshot the listener applied last is that of the final peer set, and
\* the upstream has one stream per namespace with a non-broadcast peer,
\* with that namespace's accepts.
C34_LastSnapshotIsFinal ==
    (AllReturned /\ cnt.reg > 0) =>
        /\ SnapshotSet(cbFilters) = ExpectedFilterSet(peers)
        /\ DOMAIN streams = {e.Clipboard : e \in ExpectedFilterSet(peers)}
        /\ \A e \in ExpectedFilterSet(peers) :
             Range(streams[e.Clipboard].accepts) = e.Accepts

\* ------------------------------------ properties: after the shutdown

\* C35: once Run has returned, no step starts a stream loop: a Register or
\* an Unregister after the shutdown leaves the upstream's streams as they
\* are, none is added and none is replaced by a newly started one.
C35_NoStreamAfterShutdown ==
    [][run.st = "done" =>
          \A cb \in DOMAIN streams' :
              cb \in DOMAIN streams /\ streams'[cb].gen = streams[cb].gen]_vars

\* ------------------------------------ properties: a stream loop's exit

\* C36: while the upstream runs and no reconciliation is in progress, every
\* namespace of the desired filters has a stream loop that has not returned
\* (connecting, connected or waiting to retry) unless its cancel handle was
\* invoked: no error of the remote broker or the transport ends it.
C36_LoopSurvivesErrors ==
    (run.st = "running" /\ streamsMu.holder = "none") =>
        \A cb \in DOMAIN wantFilters :
            \E l \in DOMAIN loops.live :
                /\ loops.live[l].cb = cb
                /\ loops.live[l].pc \in {"dial", "open", "backoff"}

\* ------------------------------- properties: the upstream's registration

\* C37: no freshness replay is delivered to a broadcast peer: none of the
\* events Register sends to a peer it has just registered goes to the
\* federation upstream.
C37_NoReplayToBroadcast ==
    \A p \in HubObjs :
        IsBroadcast(p) => \A i \in 1..Len(inbox[p]) : inbox[p][i].kind # "replay"

\* ------------------------------------------ properties: the two mutexes

\* The positions at which a peer's Send or the listener callback runs.
SendOrCallbackPcs ==
    {"reg_notify", "unreg_notify", "reg_callback", "unreg_callback", "reg_send", "pub_send"}

\* The positions of a stream loop inside Hub.Publish.
LoopPublishPcs == {"pub_lock", "pub_cs", "pub_send"}

\* No call is in progress: every goroutine's Register or Unregister has
\* returned, streamsMu is free, no stream loop is inside Publish, and a Run
\* whose context was cancelled has unregistered the upstream.
NoCallInProgress ==
    /\ \A t \in Threads : th[t].pc = "idle"
    /\ streamsMu.holder = "none"
    /\ \A l \in DOMAIN loops.live : loops.live[l].pc \notin LoopPublishPcs
    /\ run.st # "running" => "up" \in gone

====
